---- MODULE Spec2Model ----
(***************************************************************************)
(* A model of claudio's inline terminal compositor.                        *)
(*                                                                         *)
(*   - InlineSurface (src/src/inline_term.rs): the current and the         *)
(*     previous cell grid and the per-row diff, under Spec.                *)
(*   - Ui (src/src/ui.rs): the streaming text model, under UiSpec.         *)
(*                                                                         *)
(* Columns and rows are 0-based as in the source; a TLA+ sequence is       *)
(* 1-based, so cell (x, y) is lines[y + 1][x + 1].  Glyphs are single      *)
(* column glyphs (c.width() = 1), the case the grid is designed for.       *)
(***************************************************************************)
EXTENDS Integers, Sequences, FiniteSets, TLC

VARIABLES
    width,               \* InlineSurface.width
    height,              \* InlineSurface.height
    lines,               \* InlineSurface.lines: the grid being built
    prev_lines,          \* InlineSurface.prev_lines: the last committed grid
    last_op,             \* the surface operation that ran last
    changes,             \* the Vec<Change> the last get_line_changes returned
    frozen_text,         \* Ui.frozen_text
    text,                \* Ui.text
    stable_len,          \* Ui.stable_len
    animation_start_ms,  \* Ui.animation_start_ms
    mode,                \* Ui.mode
    cursor_pos,          \* Ui.cursor_pos
    clock,               \* the caller's elapsed time in ms
    ui_op,               \* the Ui operation that ran last
    original,            \* the pre-edit text the caller keeps for cancel_editing
    call,                \* the last call of Ui::lines_needed and what it returned
    rendered_lines,      \* InlineTerminal.rendered_lines
    terminal,            \* InlineTerminal.terminal: cursor row and visibility
    frames,              \* where the calls of InlineTerminal drew and cleared
    screen,              \* what the terminal shows: cursor column, active style, cells
    target_os,           \* the speech back end the build selects
    app_mode,            \* App.mode
    app_pc,              \* the App method that has stopped listening and goes on
    recognizer,          \* App.recognizer: the session it holds, 0 for None
    live_transcription,  \* App.live_transcription, shared with the producers
    is_listening,        \* App.is_listening, shared with the producers
    is_ready,            \* App.is_ready, shared with the producers
    threads,             \* the producer thread of each recognition session
    tick,                \* the frame of run_app's loop: what it sampled and computed
    process              \* how run_app and main end: App.should_quit, App.exit_code, output

surface_vars == <<width, height, lines, prev_lines, last_op, changes>>
ui_vars == <<frozen_text, text, stable_len, animation_start_ms, mode,
             cursor_pos, clock, ui_op, original>>
\* what the operations of InlineSurface, and those of Ui, leave alone
layout_vars == <<call>>
term_vars == <<rendered_lines, terminal, frames, screen>>
session_vars == <<target_os, app_mode, app_pc, recognizer,
                  live_transcription, is_listening, is_ready, threads, tick,
                  process>>
exit_vars == <<process>>
non_surface_vars == <<ui_vars, layout_vars, term_vars, session_vars>>
non_ui_vars == <<surface_vars, layout_vars, term_vars, session_vars>>
non_layout_vars == <<surface_vars, ui_vars, term_vars, session_vars>>
non_term_vars == <<ui_vars, layout_vars, session_vars>>
non_session_vars == <<surface_vars, ui_vars, layout_vars, term_vars,
                      exit_vars>>
non_app_vars == <<surface_vars, ui_vars, layout_vars, term_vars>>
vars == <<surface_vars, non_surface_vars>>

----------------------------------------------------------------------------
(* Bounds of the model.                                                     *)

\* set_cell is called with x in 0..MaxX and y in 0..MaxY (in and out of range)
MaxX == 2
MaxY == 1

\* the (width, height) pairs a surface is created with or resized to
Dims == {<<1, 2>>, <<3, 1>>, <<5, 1>>}

Max(a, b) == IF a >= b THEN a ELSE b
Min(a, b) == IF a <= b THEN a ELSE b

----------------------------------------------------------------------------
(* termwiz cells.                                                           *)

Default == "default"
Red == "red"

\* a char below 0x20 (the sentinel of invalidate is '\x00')
NUL == "NUL"
ControlChars == {NUL}

\* termwiz Cell::new(text, attrs): control characters are rewritten as a space
CellNew(ch, attrs) ==
    [ch |-> IF ch \in ControlChars THEN " " ELSE ch, attrs |-> attrs]

\* termwiz Cell::blank()
CellBlank == [ch |-> " ", attrs |-> Default]

\* termwiz Cell::same_contents: same text and same attributes
same_contents(c, p) == c.ch = p.ch /\ c.attrs = p.attrs

\* the cells the callers of set_cell pass
CellInputs ==
    {CellNew(" ", Default), CellNew("A", Default), CellNew("B", Default),
     CellNew("A", Red)}

\* termwiz Line::with_width(width, 0): width blank cells
LineWithWidth(w) == [i \in 1..w |-> CellBlank]

\* termwiz Line::fill_range(lo..hi, cell, 0)
fill_range(line, lo, hi, cell) ==
    [i \in 1..Len(line) |-> IF lo < i /\ i <= hi THEN cell ELSE line[i]]

\* InlineSurface::new and InlineSurface::resize allocate both grids alike
NewLines(w, h) == [y \in 1..h |-> LineWithWidth(w)]

----------------------------------------------------------------------------
(* The changes of termwiz::surface::change::Change the diff emits.          *)

CursorPosition(col) ==
    [kind |-> "CursorPosition", x |-> col, y |-> 0, attrs |-> "", text |-> ""]
AllAttributes(a) ==
    [kind |-> "AllAttributes", x |-> 0, y |-> 0, attrs |-> a, text |-> ""]
Text(s) ==
    [kind |-> "Text", x |-> 0, y |-> 0, attrs |-> "", text |-> s]

\* Option<usize> and Option<CellAttributes> of diff_line_x_only
NoCol == -1
NoAttrs == "None"

\* cells.get(col): the empty set is None, {c} is Some(c)
CellsGet(cells, col) == IF col < Len(cells) THEN {cells[col + 1]} ELSE {}

\* "let differs = match (cell, prev_cell)"
differs(cell, prev_cell) ==
    IF cell # {} /\ prev_cell # {}
    THEN \E c \in cell : \E p \in prev_cell : ~same_contents(c, p)
    ELSE cell # {} \/ prev_cell # {}

need_position_once(cursor_col, col) == cursor_col = NoCol

need_position_always(cursor_col, col) == TRUE

\* "if cursor_col != Some(col)"
need_position(cursor_col, col) == cursor_col # col

need_attrs_legacy(current_attrs, cell_attrs) ==
    IF current_attrs # NoAttrs THEN current_attrs # cell_attrs ELSE TRUE

\* "let need_attrs = match &current_attrs"
need_attrs(current_attrs, cell_attrs) ==
    IF current_attrs # NoAttrs
    THEN current_attrs # cell_attrs
    ELSE cell_attrs # Default

RECURSIVE diff_loop(_, _, _, _, _, _, _)
\* the while loop of diff_line_x_only, from column col on
diff_loop(w, cells, prev_cells, col, chg, cursor_col, current_attrs) ==
    IF col >= w THEN chg
    ELSE
      LET cell == CellsGet(cells, col)
          prev_cell == CellsGet(prev_cells, col)
      IN  IF differs(cell, prev_cell) /\ cell # {}
          THEN LET c == CHOOSE c \in cell : TRUE
                   pos == IF need_position(cursor_col, col)
                          THEN <<CursorPosition(col)>> ELSE <<>>
                   na == need_attrs(current_attrs, c.attrs)
                   att == IF na THEN <<AllAttributes(c.attrs)>> ELSE <<>>
               IN  diff_loop(w, cells, prev_cells, col + 1,
                             chg \o pos \o att \o <<Text(c.ch)>>,
                             col + 1,
                             IF na THEN c.attrs ELSE current_attrs)
          ELSE diff_loop(w, cells, prev_cells, col + 1, chg, cursor_col,
                         current_attrs)

\* InlineSurface::diff_line_x_only
diff_line_x_only(line, prev_line) ==
    diff_loop(width, line, prev_line, 0, <<>>, NoCol, NoAttrs)

\* InlineSurface::get_line_changes
get_line_changes(row) ==
    IF row >= height THEN <<>>
    ELSE diff_line_x_only(lines[row + 1], prev_lines[row + 1])

----------------------------------------------------------------------------
(* The operations of InlineSurface.                                         *)

\* The record of the operation that ran last.  For get_line_changes(row), nth
\* is 2 when the call before it was get_line_changes(row) too, and before is
\* what that call returned.
Op(name, row) == [name |-> name, row |-> row, nth |-> 0, before |-> <<>>]

GetOp(row) ==
    IF last_op.name = "get_line_changes" /\ last_op.row = row
    THEN [name |-> "get_line_changes", row |-> row, nth |-> 2,
          before |-> changes]
    ELSE [name |-> "get_line_changes", row |-> row, nth |-> 1,
          before |-> <<>>]

\* InlineSurface::new
SurfaceInit ==
    /\ \E d \in Dims :
         /\ width = d[1]
         /\ height = d[2]
         /\ lines = NewLines(d[1], d[2])
         /\ prev_lines = NewLines(d[1], d[2])
    /\ last_op = Op("new", -1)
    /\ changes = <<>>

\* InlineSurface::resize
Resize ==
    \E d \in Dims :
      /\ width' = d[1]
      /\ height' = d[2]
      /\ lines' = NewLines(d[1], d[2])
      /\ prev_lines' = NewLines(d[1], d[2])
      /\ last_op' = Op("resize", -1)
      /\ changes' = <<>>
      /\ UNCHANGED non_surface_vars

\* InlineSurface::clear
Clear ==
    /\ lines' = [y \in 1..height |-> fill_range(lines[y], 0, width, CellBlank)]
    /\ last_op' = Op("clear", -1)
    /\ changes' = <<>>
    /\ UNCHANGED <<width, height, prev_lines, non_surface_vars>>

set_cell_clamped(ls, x, y, cell) ==
    [ls EXCEPT ![Min(y, height - 1) + 1][Min(x, width - 1) + 1] = cell]

\* the grid after InlineSurface::set_cell(x, y, cell) on the grid ls
set_cell(ls, x, y, cell) ==
    IF y < height /\ x < width
    THEN [ls EXCEPT ![y + 1][x + 1] = cell]
    ELSE ls

\* InlineSurface::set_cell
SetCell ==
    \E x \in 0..MaxX, y \in 0..MaxY, cell \in CellInputs :
      /\ lines' = set_cell(lines, x, y, cell)
      /\ last_op' = Op("set_cell", -1)
      /\ changes' = <<>>
      /\ UNCHANGED <<width, height, prev_lines, non_surface_vars>>

\* the cells of the current grid that are not blank
Drawn ==
    {c \in (0..(width - 1)) \X (0..(height - 1)) :
       lines[c[2] + 1][c[1] + 1] # CellBlank}

\* set_cell is explored on grids with at most MaxDrawn cells that are not
\* blank
MaxDrawn == 1

\* InlineSurface::set_cell, the arguments of the call on record
SetCellAt ==
    \E x \in 0..MaxX, y \in 0..MaxY, cell \in CellInputs :
      /\ Cardinality(Drawn) <= MaxDrawn
      /\ lines' = set_cell(lines, x, y, cell)
      /\ last_op' = [name |-> "set_cell", row |-> y, nth |-> 0,
                     before |-> <<>>, x |-> x]
      /\ changes' = <<>>
      /\ UNCHANGED <<width, height, prev_lines, non_surface_vars>>

GetLineChangesCommitting(row) ==
    /\ changes' = get_line_changes(row)
    /\ last_op' = GetOp(row)
    /\ prev_lines' = lines
    /\ UNCHANGED <<width, height, lines, non_surface_vars>>

\* InlineSurface::get_line_changes takes &self: the surface is left as it is
GetLineChanges(row) ==
    /\ changes' = get_line_changes(row)
    /\ last_op' = GetOp(row)
    /\ UNCHANGED <<width, height, lines, prev_lines, non_surface_vars>>

commit_text_only ==
    [y \in 1..height |->
       [x \in 1..width |-> [ch |-> lines[y][x].ch,
                            attrs |-> prev_lines[y][x].attrs]]]

\* "self.prev_lines.clone_from(&self.lines)"
commit_lines == lines

\* InlineSurface::commit
Commit ==
    /\ prev_lines' = commit_lines
    /\ last_op' = Op("commit", -1)
    /\ changes' = <<>>
    /\ UNCHANGED <<width, height, lines, non_surface_vars>>

\* InlineSurface::invalidate
Invalidate ==
    /\ prev_lines' = [y \in 1..height |->
                        fill_range(prev_lines[y], 0, width,
                                   CellNew(NUL, Default))]
    /\ last_op' = Op("invalidate", -1)
    /\ changes' = <<>>
    /\ UNCHANGED <<width, height, lines, non_surface_vars>>

\* the operations that write the grids
CellNext ==
    \/ Resize
    \/ Clear
    \/ SetCellAt
    \/ Commit
    \/ Invalidate

SurfaceNext ==
    \/ Resize
    \/ Clear
    \/ SetCell
    \/ \E row \in 0..MaxY : GetLineChanges(row)
    \/ Commit
    \/ Invalidate

----------------------------------------------------------------------------
(* Properties of InlineSurface.                                             *)

RECURSIVE apply_changes(_, _, _, _, _)
\* A terminal line executing ops[i..Len(ops)] with the cursor at column cur
\* and the style `style` active: a cursor move sets the column, a set-style
\* sets the active style, a text writes its glyph in the active style at the
\* cursor and advances the cursor by one.
apply_changes(ops, i, line, cur, style) ==
    IF i > Len(ops) THEN line
    ELSE LET op == ops[i]
         IN  IF op.kind = "CursorPosition"
             THEN apply_changes(ops, i + 1, line, op.x, style)
             ELSE IF op.kind = "AllAttributes"
             THEN apply_changes(ops, i + 1, line, cur, op.attrs)
             ELSE apply_changes(
                    ops, i + 1,
                    IF cur < Len(line)
                    THEN [line EXCEPT ![cur + 1] =
                            [ch |-> op.text, attrs |-> style]]
                    ELSE line,
                    cur + 1, style)

AfterGet == last_op.name = "get_line_changes" /\ last_op.row < height

TextIdx(ops) == {i \in 1..Len(ops) : ops[i].kind = "Text"}
MoveIdx(ops) == {i \in 1..Len(ops) : ops[i].kind = "CursorPosition"}
StyleIdx(ops) == {i \in 1..Len(ops) : ops[i].kind = "AllAttributes"}

SetMax(S) == CHOOSE m \in S : \A n \in S : n <= m
SetMin(S) == CHOOSE m \in S : \A n \in S : m <= n

\* the column the text ops[i] is written to
TextCol(ops, i) ==
    LET before == {j \in MoveIdx(ops) : j < i}
        j == IF before = {} THEN 0 ELSE SetMax(before)
        start == IF j = 0 THEN 0 ELSE ops[j].x
    IN  start + Cardinality({k \in TextIdx(ops) : j < k /\ k < i})

\* C1: executing the operations get_line_changes(row) returned, in order, on a
\* terminal line that shows the previous row, from any cursor column and with
\* the default style active, makes the line equal to the current row in glyph
\* and style in every column; every cursor move has vertical offset 0.
C1_DiffMakesPrevCurrent ==
    AfterGet =>
      /\ \A c0 \in 0..(width - 1) :
           apply_changes(changes, 1, prev_lines[last_op.row + 1], c0, Default)
             = lines[last_op.row + 1]
      /\ \A i \in MoveIdx(changes) : changes[i].y = 0

\* a diff with two separate runs and a style change
C1_Witness ==
    /\ AfterGet
    /\ Cardinality(MoveIdx(changes)) >= 2
    /\ StyleIdx(changes) # {}

\* C2: after commit(), get_line_changes(row) is empty for every row.
C2_CommitThenDiffEmpty ==
    last_op.name = "commit" =>
      \A row \in 0..(height - 1) : get_line_changes(row) = <<>>

\* a commit of a grid that holds a styled glyph the previous grid did not hold
C2_Witness ==
    /\ last_op.name = "commit"
    /\ \E y \in 1..height : \E x \in 1..width : lines[y][x].attrs # Default

\* C3 as stated: the second of two get_line_changes(row) calls with no
\* mutation between them returns an empty list.
C3_SecondDiffEmpty ==
    (AfterGet /\ last_op.nth = 2) => changes = <<>>

\* C3 as amended: the second call returns the list the first one returned
\* (get_line_changes does not commit), so it is empty only if the first was.
C3_SecondDiffSameAsFirst ==
    (AfterGet /\ last_op.nth = 2) => changes = last_op.before

\* a second call whose result is not empty
C3_Witness ==
    AfterGet /\ last_op.nth = 2 /\ changes # <<>>

\* the state the scenario of C4 ends in: a 5 x 1 surface, 'A' committed at
\* (0, 0), 'B' at (0, 0) in the current grid, get_line_changes(0) called
C4_Scenario ==
    /\ width = 5
    /\ height = 1
    /\ prev_lines = <<[LineWithWidth(5) EXCEPT ![1] = CellNew("A", Default)]>>
    /\ lines = <<[LineWithWidth(5) EXCEPT ![1] = CellNew("B", Default)]>>
    /\ last_op.name = "get_line_changes"
    /\ last_op.row = 0

\* C4 as stated: the scenario returns [move to column 0, set style default,
\* text "B"].
C4_ScenarioThreeOps ==
    C4_Scenario =>
      changes = <<CursorPosition(0), AllAttributes(Default), Text("B")>>

\* C4 as amended: the scenario returns [move to column 0, text "B"]; no
\* set-style is emitted for a default-style cell at the start of a row.
C4_ScenarioTwoOps ==
    C4_Scenario => changes = <<CursorPosition(0), Text("B")>>

C4_Witness == C4_Scenario

\* the columns of the row last diffed whose current cell differs from the
\* previous one
DiffCols ==
    {x \in 0..(width - 1) :
       ~same_contents(lines[last_op.row + 1][x + 1],
                      prev_lines[last_op.row + 1][x + 1])}

\* the cells that differ are one run of adjacent cells, each with a new glyph,
\* all of one style
C5_OneRun ==
    /\ AfterGet
    /\ DiffCols # {}
    /\ \A x \in SetMin(DiffCols)..SetMax(DiffCols) : x \in DiffCols
    /\ \A x \in DiffCols :
         /\ lines[last_op.row + 1][x + 1].ch
              # prev_lines[last_op.row + 1][x + 1].ch
         /\ lines[last_op.row + 1][x + 1].attrs
              = lines[last_op.row + 1][SetMin(DiffCols) + 1].attrs

\* the glyphs a text operation carries
Glyphs(op) == <<op.text>>

\* C5 as stated: for a changed run of k cells of one style the result holds
\* exactly one text operation, which carries the k glyphs of the run.
C5_RunIsOneText ==
    C5_OneRun =>
      /\ Cardinality(TextIdx(changes)) = 1
      /\ \A i \in TextIdx(changes) :
           Glyphs(changes[i]) =
             [n \in 1..Cardinality(DiffCols) |->
                lines[last_op.row + 1][SetMin(DiffCols) + n].ch]

\* C5 as amended: the result is one cursor move to the first column of the
\* run, a set-style if the style of the run is not the default, and then k
\* text operations, one glyph each, in column order.
C5_RunIsOneMoveKTexts ==
    C5_OneRun =>
      LET a == SetMin(DiffCols)
          k == Cardinality(DiffCols)
          st == lines[last_op.row + 1][a + 1].attrs
      IN  changes =
            <<CursorPosition(a)>>
            \o (IF st # Default THEN <<AllAttributes(st)>> ELSE <<>>)
            \o [n \in 1..k |-> Text(lines[last_op.row + 1][a + n].ch)]

\* a run of at least two cells
C5_Witness == C5_OneRun /\ Cardinality(DiffCols) >= 2

\* a set-style stands right before the text changes[i]
HasStyle(i) == i > 1 /\ changes[i - 1].kind = "AllAttributes"

\* the style of the last set-style emitted before the cell of changes[i],
\* NoAttrs when the result holds none yet
LastEmitted(i) ==
    LET upto == IF HasStyle(i) THEN i - 1 ELSE i
        S == {j \in StyleIdx(changes) : j < upto}
    IN  IF S = {} THEN NoAttrs ELSE changes[SetMax(S)].attrs

\* the style of the grid cell the text changes[i] was emitted for
CellStyle(i) == lines[last_op.row + 1][TextCol(changes, i) + 1].attrs

\* two cells emitted one after the other with the same style: no set-style
\* for the second
NoRepeatedStyle ==
    \A i \in TextIdx(changes) : \A j \in TextIdx(changes) :
      (i < j /\ CellStyle(i) = CellStyle(j)
         /\ ~\E k \in TextIdx(changes) : i < k /\ k < j)
      => ~HasStyle(j)

\* C6 as stated: a set-style precedes a text exactly when the cell's style
\* differs from the style of the set-style emitted last in the same result.
C6_StyleIffDiffersFromLastEmitted ==
    AfterGet =>
      /\ \A i \in TextIdx(changes) :
           HasStyle(i) <=> (CellStyle(i) # LastEmitted(i))
      /\ NoRepeatedStyle

\* C6 as amended: as stated, but while the result holds no set-style yet the
\* cell's style is compared with the default style.
C6_StyleIffDiffersFromLastEmittedOrDefault ==
    AfterGet =>
      /\ \A i \in TextIdx(changes) :
           HasStyle(i) <=>
             (CellStyle(i) # (IF LastEmitted(i) = NoAttrs THEN Default
                              ELSE LastEmitted(i)))
      /\ NoRepeatedStyle

\* a result with a cell whose previous style is its new style and that still
\* gets a set-style, and a later cell that gets none
C6_Witness ==
    /\ AfterGet
    /\ \E i \in TextIdx(changes) :
         /\ HasStyle(i)
         /\ prev_lines[last_op.row + 1][TextCol(changes, i) + 1].attrs
              = CellStyle(i)
    /\ \E i \in TextIdx(changes) : ~HasStyle(i) /\ LastEmitted(i) # NoAttrs

\* C22: set_cell(x, y, cell) with x >= width or y >= height changes nothing;
\* with coordinates in range it changes no cell of the current grid other
\* than (x, y), and it never changes the previous grid or the dimensions.
C22_SetCellWritesOneCell ==
    [][last_op'.name = "set_cell" =>
         LET x == last_op'.x
             y == last_op'.row
         IN  /\ prev_lines' = prev_lines
             /\ width' = width
             /\ height' = height
             /\ (x >= width \/ y >= height) => lines' = lines
             /\ (x < width /\ y < height) =>
                  \A y2 \in 0..(height - 1) : \A x2 \in 0..(width - 1) :
                    (x2 # x \/ y2 # y) =>
                      lines'[y2 + 1][x2 + 1] = lines[y2 + 1][x2 + 1]]_vars

\* a call in range that left a cell drawn before it as it was, over a
\* previous grid that is not blank
C22_Witness ==
    /\ last_op.name = "set_cell"
    /\ last_op.x < width
    /\ last_op.row < height
    /\ lines[last_op.row + 1][last_op.x + 1].attrs # Default
    /\ Cardinality(Drawn) >= 2
    /\ \E y \in 1..height : \E x \in 1..width :
         prev_lines[y][x] # CellBlank /\ prev_lines[y][x] # lines[y][x]

\* C7: after invalidate(), get_line_changes(row) holds a text operation for
\* every column of every row.
C7_InvalidateRepaintsEveryCell ==
    last_op.name = "invalidate" =>
      \A row \in 0..(height - 1) :
        {TextCol(get_line_changes(row), i) :
           i \in TextIdx(get_line_changes(row))} = 0..(width - 1)

----------------------------------------------------------------------------
(* Ui: the streaming text model of src/src/ui.rs.  A string is the          *)
(* sequence of its chars; times are whole milliseconds.                     *)

CHAR_FADE_DELAY_MS == 20
CHAR_FADE_DURATION_MS == 1500

\* the source texts: strings of at most MaxTextLen chars over Chars
MaxTextLen == 3
Chars == {"a", "b"}
Texts == UNION {[1..n -> Chars] : n \in 0..MaxTextLen}

\* the caller's clock advances in steps of half the per-char delay, at most
\* MaxTicks times
TickMs == CHAR_FADE_DELAY_MS \div 2
MaxTicks == 2

\* the anchor is not moved further back than this many ms before time 0
MaxBackShiftMs == 40

\* start_editing is explored while the combined text has at most this length
MaxFrozenLen == 1

RECURSIVE common_prefix_len(_, _)
\* "self.text.chars().zip(text.chars()).take_while(|(a, b)| a == b).count()"
common_prefix_len(a, b) ==
    IF a = <<>> \/ b = <<>> \/ Head(a) # Head(b) THEN 0
    ELSE 1 + common_prefix_len(Tail(a), Tail(b))

new_stable_len_prefix_only(cpl, sl, new_text_len) == cpl

new_stable_len_old_only(cpl, sl, new_text_len) == Min(sl, new_text_len)

new_stable_len_unclamped(cpl, sl, new_text_len) == Max(cpl, sl)

\* "common_prefix_len.max(self.stable_len.min(new_text_len))"
new_stable_len(cpl, sl, new_text_len) == Max(cpl, Min(sl, new_text_len))

\* s.chars().skip(n).collect()
Skip(s, n) == SubSeq(s, n + 1, Len(s))

\* str::starts_with
starts_with(s, p) == Len(p) <= Len(s) /\ SubSeq(s, 1, Len(p)) = p

new_animation_start_ignoring_boundary(old_text, new_text, sl, nsl, anchor, now) ==
    IF Len(new_text) > nsl
    THEN IF old_text = <<>>
         THEN now
         ELSE LET old_unstable == Skip(old_text, sl)
                  new_unstable == Skip(new_text, nsl)
              IN  IF starts_with(new_unstable, old_unstable)
                  THEN LET new_chars == Len(new_unstable) - Len(old_unstable)
                       IN  IF new_chars > 0
                           THEN anchor - new_chars * CHAR_FADE_DELAY_MS
                           ELSE anchor
                  ELSE now
    ELSE anchor

new_animation_start_keeping_on_revision(old_text, new_text, sl, nsl, anchor, now) ==
    IF Len(new_text) > nsl
    THEN IF old_text = <<>> \/ nsl # sl
         THEN now
         ELSE LET old_unstable == Skip(old_text, sl)
                  new_unstable == Skip(new_text, nsl)
              IN  IF starts_with(new_unstable, old_unstable)
                  THEN LET new_chars == Len(new_unstable) - Len(old_unstable)
                       IN  IF new_chars > 0
                           THEN anchor - new_chars * CHAR_FADE_DELAY_MS
                           ELSE anchor
                  ELSE anchor
    ELSE anchor

\* "Handle animation timing for unstable text": the value of
\* animation_start_ms after set_text
new_animation_start(old_text, new_text, sl, nsl, anchor, now) ==
    IF Len(new_text) > nsl
    THEN IF old_text = <<>> \/ nsl # sl
         THEN now
         ELSE LET old_unstable == Skip(old_text, sl)
                  new_unstable == Skip(new_text, nsl)
              IN  IF starts_with(new_unstable, old_unstable)
                  THEN LET new_chars == Len(new_unstable) - Len(old_unstable)
                       IN  IF new_chars > 0
                           THEN anchor - new_chars * CHAR_FADE_DELAY_MS
                           ELSE anchor
                  ELSE now
    ELSE anchor

\* what char_animation_color returns for a char that is not visible yet
Hidden == -1

\* The apparent age a Listening-mode render at time now draws the char at
\* index j of text with: a char below the stable boundary is drawn settled,
\* the colour of a fully faded char; a volatile char with anim_index
\* j - stable_len is hidden before its appear time and then has the age
\* (now - anchor) - anim_index * delay, which the fade saturates at its
\* duration.
ApparentAge(j, sl, anchor, now) ==
    IF j < sl THEN CHAR_FADE_DURATION_MS
    ELSE LET relative_time == now - anchor
             appear_time == (j - sl) * CHAR_FADE_DELAY_MS
         IN  IF relative_time < appear_time THEN Hidden
             ELSE Min(relative_time - appear_time, CHAR_FADE_DURATION_MS)

\* Ui::full_text
full_text == frozen_text \o text

\* The record of the Ui operation that ran last.  For set_text: whether the
\* text was taken (Listening mode, text differs), the common prefix length,
\* the number of chars appended (-1 when the new text is no extension of the
\* old one), and the old text length and stable boundary.
UiOp(name) ==
    [name |-> name, changed |-> FALSE, cp |-> 0, appended |-> -1,
     old_len |-> 0, old_stable |-> 0]

SetTextOp(t) ==
    [name |-> "set_text",
     changed |-> (mode = "Listening" /\ t # text),
     cp |-> common_prefix_len(text, t),
     appended |-> IF starts_with(t, text) THEN Len(t) - Len(text) ELSE -1,
     old_len |-> Len(text),
     old_stable |-> stable_len]

\* For start_editing: whether it was called in Listening mode, and the
\* length and stable boundary of the source text it found.
StartEditingOp ==
    [name |-> "start_editing",
     changed |-> (mode = "Listening"),
     cp |-> 0,
     appended |-> -1,
     old_len |-> Len(text),
     old_stable |-> stable_len]

\* For cancel_editing and finish_editing_with_freeze: whether the call was
\* made in Editing mode, the length of the pre-edit text and the length of
\* the prefix the edit buffer shares with it.
EndEditingOp(name) ==
    [name |-> name,
     changed |-> (mode = "Editing"),
     cp |-> common_prefix_len(original, frozen_text),
     appended |-> -1,
     old_len |-> Len(original),
     old_stable |-> 0]

\* For a cursor or edit operation: whether it had an effect on the cursor or
\* on the buffer.
EditOp(name, effect) == [UiOp(name) EXCEPT !.changed = effect]

\* Ui::new
UiInit ==
    /\ frozen_text = <<>>
    /\ text = <<>>
    /\ stable_len = 0
    /\ animation_start_ms = 0
    /\ mode = "Listening"
    /\ cursor_pos = 0
    /\ clock = 0
    /\ ui_op = UiOp("new")
    /\ original = <<>>

\* time passes between two calls
AdvanceTime ==
    /\ clock < MaxTicks * TickMs
    /\ clock' = clock + TickMs
    /\ UNCHANGED <<frozen_text, text, stable_len, animation_start_ms, mode,
                   cursor_pos, ui_op, original, non_ui_vars>>

SetTextInAnyMode ==
    \E t \in Texts :
      /\ ui_op' = SetTextOp(t)
      /\ IF t = text
         THEN UNCHANGED <<text, stable_len, animation_start_ms>>
         ELSE LET cpl == common_prefix_len(text, t)
                  nsl == new_stable_len(cpl, stable_len, Len(t))
                  start == new_animation_start(text, t, stable_len, nsl,
                                               animation_start_ms, clock)
              IN  /\ start >= -MaxBackShiftMs
                  /\ animation_start_ms' = start
                  /\ stable_len' = nsl
                  /\ text' = t
      /\ UNCHANGED <<frozen_text, mode, cursor_pos, clock, original,
                     non_ui_vars>>

set_text_freezing_old_text(T) ==
    \E t \in T :
      /\ ui_op' = SetTextOp(t)
      /\ IF mode = "Editing" \/ t = text
         THEN UNCHANGED <<frozen_text, text, stable_len, animation_start_ms>>
         ELSE /\ frozen_text' = frozen_text \o text
              /\ animation_start_ms' = clock
              /\ stable_len' = 0
              /\ text' = t
      /\ UNCHANGED <<mode, cursor_pos, clock, original, non_ui_vars>>

set_text_restarting_on_same_text(T) ==
    \E t \in T :
      /\ ui_op' = SetTextOp(t)
      /\ IF mode = "Editing"
         THEN UNCHANGED <<text, stable_len, animation_start_ms>>
         ELSE LET cpl == common_prefix_len(text, t)
                  nsl == new_stable_len(cpl, stable_len, Len(t))
                  start == IF t = text THEN clock
                           ELSE new_animation_start(text, t, stable_len, nsl,
                                                    animation_start_ms, clock)
              IN  /\ start >= -MaxBackShiftMs
                  /\ animation_start_ms' = start
                  /\ stable_len' = nsl
                  /\ text' = t
      /\ UNCHANGED <<frozen_text, mode, cursor_pos, clock, original,
                     non_ui_vars>>

\* Ui::set_text(t, clock) for a source text t of T
set_text(T) ==
    \E t \in T :
      /\ ui_op' = SetTextOp(t)
      /\ IF mode = "Editing" \/ t = text
         THEN UNCHANGED <<text, stable_len, animation_start_ms>>
         ELSE LET cpl == common_prefix_len(text, t)
                  nsl == new_stable_len(cpl, stable_len, Len(t))
                  start == new_animation_start(text, t, stable_len, nsl,
                                               animation_start_ms, clock)
              IN  /\ start >= -MaxBackShiftMs
                  /\ animation_start_ms' = start
                  /\ stable_len' = nsl
                  /\ text' = t
      /\ UNCHANGED <<frozen_text, mode, cursor_pos, clock, original,
                     non_ui_vars>>

\* Ui::set_text(t, clock)
SetText == set_text(Texts)

\* Ui::reset
Reset ==
    /\ frozen_text' = <<>>
    /\ text' = <<>>
    /\ stable_len' = 0
    /\ animation_start_ms' = 0
    /\ cursor_pos' = 0
    /\ mode' = "Listening"
    /\ ui_op' = UiOp("reset")
    /\ original' = <<>>
    /\ UNCHANGED <<clock, non_ui_vars>>

start_editing_dropping_frozen(bound) ==
    /\ Len(full_text) <= bound
    /\ mode' = "Editing"
    /\ frozen_text' = text
    /\ text' = <<>>
    /\ stable_len' = 0
    /\ cursor_pos' = Len(text)
    /\ ui_op' = StartEditingOp
    /\ original' = full_text
    /\ UNCHANGED <<animation_start_ms, clock, non_ui_vars>>

start_editing_keeping_source(bound) ==
    /\ Len(full_text) <= bound
    /\ mode' = "Editing"
    /\ frozen_text' = full_text
    /\ cursor_pos' = Len(full_text)
    /\ ui_op' = StartEditingOp
    /\ original' = full_text
    /\ UNCHANGED <<text, stable_len, animation_start_ms, clock, non_ui_vars>>

\* Ui::start_editing, explored while the combined text has at most bound
\* chars; the caller saves the full visible text as the pre-edit snapshot
start_editing(bound) ==
    /\ Len(full_text) <= bound
    /\ mode' = "Editing"
    /\ frozen_text' = full_text
    /\ text' = <<>>
    /\ stable_len' = 0
    /\ cursor_pos' = Len(full_text)
    /\ ui_op' = StartEditingOp
    /\ original' = full_text
    /\ UNCHANGED <<animation_start_ms, clock, non_ui_vars>>

\* Ui::start_editing
StartEditing == start_editing(MaxFrozenLen)

\* Ui::finish_editing_with_freeze; the caller drops its snapshot
FinishEditingWithFreeze ==
    /\ mode' = "Listening"
    /\ ui_op' = EndEditingOp("finish_editing_with_freeze")
    /\ original' = <<>>
    /\ UNCHANGED <<frozen_text, text, stable_len, animation_start_ms,
                   cursor_pos, clock, non_ui_vars>>

UiNext ==
    \/ AdvanceTime
    \/ SetText
    \/ Reset
    \/ StartEditing
    \/ FinishEditingWithFreeze

----------------------------------------------------------------------------
(* The edit buffer: while Editing, frozen_text is the buffer and cursor_pos  *)
(* a char index into it.                                                    *)

\* the edit buffer is explored up to this many chars
MaxEditLen == 2

\* Ui::char_to_byte_index followed by String::insert: a char index past the
\* end maps to the end of the string
insert_at(s, char_idx, ch) ==
    LET k == Min(char_idx, Len(s))
    IN  SubSeq(s, 1, k) \o <<ch>> \o SubSeq(s, k + 1, Len(s))

\* "self.frozen_text.drain(byte_pos..next_byte)": removes the char at
\* char_idx, nothing when char_idx is past the end
remove_at(s, char_idx) ==
    IF char_idx < Len(s)
    THEN SubSeq(s, 1, char_idx) \o SubSeq(s, char_idx + 2, Len(s))
    ELSE s

cursor_right_unclamped(pos, len) == pos + 1

\* the cursor after Ui::cursor_right
cursor_right(pos, len) == IF pos < len THEN pos + 1 ELSE pos

\* the cursor after Ui::cursor_left
cursor_left(pos) == IF pos > 0 THEN pos - 1 ELSE pos

\* Ui::cursor_left
CursorLeft ==
    /\ cursor_pos' = cursor_left(cursor_pos)
    /\ ui_op' = EditOp("cursor_left", cursor_pos > 0)
    /\ UNCHANGED <<frozen_text, text, stable_len, animation_start_ms, mode,
                   clock, original, non_ui_vars>>

\* Ui::cursor_right
CursorRight ==
    /\ cursor_pos' = cursor_right(cursor_pos, Len(frozen_text))
    /\ ui_op' = EditOp("cursor_right", cursor_pos < Len(frozen_text))
    /\ UNCHANGED <<frozen_text, text, stable_len, animation_start_ms, mode,
                   clock, original, non_ui_vars>>

\* Ui::cursor_home
CursorHome ==
    /\ cursor_pos' = 0
    /\ ui_op' = EditOp("cursor_home", cursor_pos > 0)
    /\ UNCHANGED <<frozen_text, text, stable_len, animation_start_ms, mode,
                   clock, original, non_ui_vars>>

\* Ui::cursor_end
CursorEnd ==
    /\ cursor_pos' = Len(frozen_text)
    /\ ui_op' = EditOp("cursor_end", cursor_pos # Len(frozen_text))
    /\ UNCHANGED <<frozen_text, text, stable_len, animation_start_ms, mode,
                   clock, original, non_ui_vars>>

\* Ui::insert_char, explored while the buffer has fewer than MaxEditLen chars
InsertChar ==
    \E ch \in Chars :
      /\ Len(frozen_text) < MaxEditLen
      /\ frozen_text' = insert_at(frozen_text, cursor_pos, ch)
      /\ cursor_pos' = cursor_pos + 1
      /\ ui_op' = EditOp("insert_char", TRUE)
      /\ UNCHANGED <<text, stable_len, animation_start_ms, mode, clock,
                     original, non_ui_vars>>

\* Ui::delete_back
DeleteBack ==
    /\ IF cursor_pos > 0
       THEN /\ cursor_pos' = cursor_pos - 1
            /\ frozen_text' = remove_at(frozen_text, cursor_pos - 1)
       ELSE UNCHANGED <<cursor_pos, frozen_text>>
    /\ ui_op' = EditOp("delete_back", cursor_pos > 0)
    /\ UNCHANGED <<text, stable_len, animation_start_ms, mode, clock,
                   original, non_ui_vars>>

\* Ui::delete_forward
DeleteForward ==
    /\ frozen_text' = IF cursor_pos < Len(frozen_text)
                      THEN remove_at(frozen_text, cursor_pos)
                      ELSE frozen_text
    /\ ui_op' = EditOp("delete_forward", cursor_pos < Len(frozen_text))
    /\ UNCHANGED <<text, stable_len, animation_start_ms, mode, cursor_pos,
                   clock, original, non_ui_vars>>

CancelEditingKeepingEdits ==
    /\ mode = "Editing"
    /\ text' = <<>>
    /\ stable_len' = 0
    /\ mode' = "Listening"
    /\ ui_op' = EndEditingOp("cancel_editing")
    /\ original' = <<>>
    /\ UNCHANGED <<frozen_text, animation_start_ms, cursor_pos, clock,
                   non_ui_vars>>

\* Ui::cancel_editing(original), called by the owner of the pre-edit
\* snapshot while editing; the caller drops its snapshot
CancelEditing ==
    /\ mode = "Editing"
    /\ frozen_text' = original
    /\ text' = <<>>
    /\ stable_len' = 0
    /\ mode' = "Listening"
    /\ ui_op' = EndEditingOp("cancel_editing")
    /\ original' = <<>>
    /\ UNCHANGED <<animation_start_ms, cursor_pos, clock, non_ui_vars>>

\* Ui::start_editing, with room for a buffer of MaxEditLen chars
StartEditingBuffer == start_editing(MaxEditLen)

\* Ui::ensure_trailing_space, explored while the frozen text has fewer than
\* MaxEditLen chars
EnsureTrailingSpace ==
    LET push == frozen_text # <<>> /\ frozen_text[Len(frozen_text)] # " "
    IN  /\ Len(frozen_text) < MaxEditLen
        /\ frozen_text' = IF push THEN Append(frozen_text, " ")
                          ELSE frozen_text
        /\ ui_op' = EditOp("ensure_trailing_space", push)
        /\ UNCHANGED <<text, stable_len, animation_start_ms, mode,
                       cursor_pos, clock, original, non_ui_vars>>

\* the source texts of at most MaxFrozenLen chars
ShortTexts == {t \in Texts : Len(t) <= MaxFrozenLen}

\* Ui::set_text(t, clock) with a short source text
SetShortText == set_text(ShortTexts)

\* every operation of Ui that writes frozen_text or text, and the cursor
\* moves, at one moment of the caller's clock
TextNext ==
    \/ SetShortText
    \/ Reset
    \/ StartEditingBuffer
    \/ FinishEditingWithFreeze
    \/ EnsureTrailingSpace
    \/ CancelEditing
    \/ CursorLeft
    \/ CursorRight
    \/ CursorHome
    \/ CursorEnd
    \/ InsertChar
    \/ DeleteBack
    \/ DeleteForward

\* the operations of Ui at one moment of the caller's clock
EditNext ==
    \/ SetText
    \/ Reset
    \/ StartEditingBuffer
    \/ FinishEditingWithFreeze
    \/ CancelEditing
    \/ CursorLeft
    \/ CursorRight
    \/ CursorHome
    \/ CursorEnd
    \/ InsertChar
    \/ DeleteBack
    \/ DeleteForward

----------------------------------------------------------------------------
(* The edit buffer as the String it is: a sequence of UTF-8 bytes.  A byte  *)
(* is <<ch, k>>, the k-th byte (from 0) of the encoding of the char ch.     *)

\* the chars typed into the buffer: of 1, 2 and 3 bytes
EditChars == {"a", "e-acute", "euro"}

\* the buffer of bytes is explored up to this many chars
MaxUtf8Len == 3

\* char::len_utf8
len_utf8(ch) == CASE ch = "e-acute" -> 2 [] ch = "euro" -> 3 [] OTHER -> 1

\* the bytes of a char
Utf8(ch) == [k \in 1..len_utf8(ch) |-> <<ch, k - 1>>]

RECURSIVE Encode(_)
\* the bytes of a String with the chars s
Encode(s) == IF s = <<>> THEN <<>> ELSE Utf8(Head(s)) \o Encode(Tail(s))

IsLead(byte) == byte[2] = 0

\* String::chars: one char for every leading byte
Decode(bytes) ==
    LET leads == SelectSeq(bytes, IsLead)
    IN  [k \in 1..Len(leads) |-> leads[k][1]]

\* str::is_char_boundary
is_char_boundary(bytes, pos) ==
    pos = 0 \/ pos = Len(bytes) \/ (pos < Len(bytes) /\ IsLead(bytes[pos + 1]))

\* what is left of a String after a panic
Panicked == <<<<"panic", 0>>>>

\* String::insert(byte_pos, ch): panics off a char boundary
string_insert(bytes, byte_pos, ch) ==
    IF byte_pos <= Len(bytes) /\ is_char_boundary(bytes, byte_pos)
    THEN SubSeq(bytes, 1, byte_pos) \o Utf8(ch)
         \o SubSeq(bytes, byte_pos + 1, Len(bytes))
    ELSE Panicked

\* String::drain(from..to): panics off a char boundary or out of range
string_drain(bytes, from, to) ==
    IF /\ from <= to
       /\ to <= Len(bytes)
       /\ is_char_boundary(bytes, from)
       /\ is_char_boundary(bytes, to)
    THEN SubSeq(bytes, 1, from) \o SubSeq(bytes, to + 1, Len(bytes))
    ELSE Panicked

char_to_byte_index_unconverted(bytes, char_idx) == Min(char_idx, Len(bytes))

\* Ui::char_to_byte_index: the offset of the leading byte of the char at
\* char_idx, the byte length when there is no such char
char_to_byte_index(bytes, char_idx) ==
    LET starts == {p \in 0..(Len(bytes) - 1) : IsLead(bytes[p + 1])}
    IN  IF char_idx < Cardinality(starts)
        THEN CHOOSE p \in starts :
               Cardinality({q \in starts : q < p}) = char_idx
        ELSE Len(bytes)

\* For insert_char: the char inserted.
InsertOp(ch) ==
    [name |-> "insert_char", changed |-> TRUE, cp |-> 0, appended |-> -1,
     old_len |-> 0, old_stable |-> 0, ch |-> ch]

\* Ui::insert_char on the bytes of the buffer, explored while the buffer has
\* fewer than MaxUtf8Len chars
InsertCharUtf8 ==
    \E ch \in EditChars :
      LET bytes == Encode(frozen_text)
          byte_pos == char_to_byte_index(bytes, cursor_pos)
      IN  /\ Len(frozen_text) < MaxUtf8Len
          /\ frozen_text' = Decode(string_insert(bytes, byte_pos, ch))
          /\ cursor_pos' = cursor_pos + 1
          /\ ui_op' = InsertOp(ch)
          /\ UNCHANGED <<text, stable_len, animation_start_ms, mode, clock,
                         original, non_ui_vars>>

\* Ui::delete_back on the bytes of the buffer
DeleteBackUtf8 ==
    LET bytes == Encode(frozen_text)
        byte_pos == char_to_byte_index(bytes, cursor_pos - 1)
        next_byte == char_to_byte_index(bytes, cursor_pos)
    IN  /\ IF cursor_pos > 0
           THEN /\ cursor_pos' = cursor_pos - 1
                /\ frozen_text' =
                     Decode(string_drain(bytes, byte_pos, next_byte))
           ELSE UNCHANGED <<cursor_pos, frozen_text>>
        /\ ui_op' = EditOp("delete_back", cursor_pos > 0)
        /\ UNCHANGED <<text, stable_len, animation_start_ms, mode, clock,
                       original, non_ui_vars>>

\* Ui::delete_forward on the bytes of the buffer
DeleteForwardUtf8 ==
    LET bytes == Encode(frozen_text)
        byte_pos == char_to_byte_index(bytes, cursor_pos)
        next_byte == char_to_byte_index(bytes, cursor_pos + 1)
    IN  /\ frozen_text' = IF cursor_pos < Len(frozen_text)
                          THEN Decode(string_drain(bytes, byte_pos, next_byte))
                          ELSE frozen_text
        /\ ui_op' = EditOp("delete_forward", cursor_pos < Len(frozen_text))
        /\ UNCHANGED <<text, stable_len, animation_start_ms, mode, cursor_pos,
                       clock, original, non_ui_vars>>

\* an edit: start_editing, then the cursor and edit operations
Utf8EditNext ==
    \/ StartEditingBuffer
    \/ CursorLeft
    \/ CursorRight
    \/ CursorHome
    \/ CursorEnd
    \/ InsertCharUtf8
    \/ DeleteBackUtf8
    \/ DeleteForwardUtf8

\* C27: for an edit buffer with multi-byte chars and the cursor at char index
\* i: insert_char(ch) yields the chars with ch at index i and the cursor at
\* i + 1; delete_back (i > 0) removes the char at i - 1 and nothing else and
\* moves the cursor to i - 1; delete_forward (i < length) removes the char at
\* i and nothing else and keeps the cursor; at the boundaries the deletes
\* change nothing, and a cursor move never changes the buffer.
C27_EditsWorkOnChars ==
    [][LET i == cursor_pos
           n == Len(frozen_text)
           before == SubSeq(frozen_text, 1, i)
           after == SubSeq(frozen_text, i + 1, n)
       IN  /\ ui_op'.name = "insert_char" =>
                /\ frozen_text' = before \o <<ui_op'.ch>> \o after
                /\ cursor_pos' = i + 1
           /\ ui_op'.name = "delete_back" =>
                IF i > 0
                THEN /\ frozen_text' = SubSeq(frozen_text, 1, i - 1) \o after
                     /\ cursor_pos' = i - 1
                ELSE UNCHANGED <<frozen_text, cursor_pos>>
           /\ ui_op'.name = "delete_forward" =>
                /\ frozen_text' =
                     IF i < n THEN before \o SubSeq(frozen_text, i + 2, n)
                     ELSE frozen_text
                /\ cursor_pos' = i
           /\ ui_op'.name \in {"cursor_left", "cursor_right", "cursor_home",
                               "cursor_end"} =>
                frozen_text' = frozen_text]_vars

\* a 2-byte char was inserted between a 3-byte char and another char
C27_Witness ==
    /\ mode = "Editing"
    /\ ui_op.name = "insert_char"
    /\ ui_op.ch = "e-acute"
    /\ cursor_pos = 2
    /\ Len(frozen_text) >= 3
    /\ frozen_text[1] = "euro"
    /\ frozen_text[2] = "e-acute"

----------------------------------------------------------------------------
(* Properties of Ui::set_text.                                              *)

\* a step in which set_text, called in Listening mode, took a new text
SetTextStep ==
    ui_op'.name = "set_text" /\ mode = "Listening" /\ text' # text

\* such a step whose new text is the old text with chars appended
AppendStep == SetTextStep /\ starts_with(text', text)

\* C8: a set_text call in Listening mode with a new text leaves the stable
\* boundary at max(common_prefix_len(old, new), min(old boundary, len(new))).
C8_StableBoundary ==
    [][SetTextStep =>
         stable_len' = Max(common_prefix_len(text, text'),
                           Min(stable_len, Len(text')))]_vars

\* a call in which the old boundary, not the common prefix, decided
C8_Witness ==
    /\ ui_op.name = "set_text"
    /\ ui_op.changed
    /\ ui_op.cp < stable_len

\* C9 as stated: on a pure append the stable boundary does not decrease and
\* every char that was present before the call has the same apparent age
\* right before and right after it.
C9_AppendKeepsEveryAge ==
    [][AppendStep =>
         /\ stable_len' >= stable_len
         /\ \A j \in 0..(Len(text) - 1) :
              ApparentAge(j, stable_len, animation_start_ms, clock)
                = ApparentAge(j, stable_len', animation_start_ms', clock)]_vars

\* C9 as amended: on a pure append the stable boundary does not decrease,
\* every char below the old boundary has the same apparent age (settled)
\* before and after, and the chars that were volatile become settled: the
\* boundary is the old text length after the call.
C9_AppendKeepsSettledAge ==
    [][AppendStep =>
         /\ stable_len' >= stable_len
         /\ stable_len' = Len(text)
         /\ \A j \in 0..(stable_len - 1) :
              ApparentAge(j, stable_len, animation_start_ms, clock)
                = ApparentAge(j, stable_len', animation_start_ms', clock)]_vars

\* an append to a text that had settled and volatile chars
C9_Witness ==
    /\ ui_op.name = "set_text"
    /\ ui_op.changed
    /\ ui_op.appended >= 1
    /\ 1 <= ui_op.old_stable
    /\ ui_op.old_stable < ui_op.old_len

\* C10 as stated: an append of n >= 1 chars to a text with a non-empty
\* volatile region moves the anchor back by n * 20 ms and does not reset it
\* to the current time.
C10_AppendShiftsAnchor ==
    [][(AppendStep /\ stable_len < Len(text)) =>
         /\ animation_start_ms' =
              animation_start_ms
                - (Len(text') - Len(text)) * CHAR_FADE_DELAY_MS
         /\ animation_start_ms' # clock]_vars

\* C10 as amended: such an append moves the stable boundary to the old text
\* length and resets the anchor to the time of the call.
C10_AppendResetsAnchor ==
    [][(AppendStep /\ stable_len < Len(text)) =>
         /\ animation_start_ms' = clock
         /\ stable_len' = Len(text)]_vars

\* an append to settled "a" + volatile "b" (the example, scaled), later than
\* time 0
C10_Witness ==
    /\ ui_op.name = "set_text"
    /\ ui_op.changed
    /\ ui_op.appended >= 1
    /\ ui_op.old_stable = 1
    /\ ui_op.old_len = 2
    /\ SubSeq(text, 1, 2) = <<"a", "b">>
    /\ clock > 0
    /\ animation_start_ms = clock

\* a set_text step whose new volatile region (the new text from the new
\* boundary on) does not start with the old volatile region (the old text
\* from the old boundary on)
RevisionStep ==
    /\ SetTextStep
    /\ ~starts_with(Skip(text', stable_len'), Skip(text, stable_len))

\* C11 as stated: after a non-append revision of the volatile region the
\* anchor equals the time passed to the call.
C11_RevisionResetsAnchor ==
    [][RevisionStep => animation_start_ms' = clock]_vars

\* C11 as amended: after a non-append revision that leaves a non-empty
\* volatile region the anchor equals the time passed to the call; when the
\* new text ends at the new boundary the anchor is left as it was.
C11_RevisionWithVolatileResetsAnchor ==
    [][RevisionStep =>
         IF Len(text') > stable_len'
         THEN animation_start_ms' = clock
         ELSE animation_start_ms' = animation_start_ms]_vars

\* a revision, later than time 0, of a text that was all volatile into a
\* text with another first char: the boundary stays at 0 and the volatile
\* regions are compared
C11_Witness ==
    /\ ui_op.name = "set_text"
    /\ ui_op.changed
    /\ ui_op.old_stable = 0
    /\ ui_op.old_len >= 1
    /\ ui_op.cp = 0
    /\ Len(text) >= 1
    /\ stable_len = 0
    /\ clock > 0
    /\ animation_start_ms = clock

\* the char indices at which the old and the new text of a set_text step
\* differ (a char present in one of them only differs)
ChangedIdx ==
    {i \in 0..(Max(Len(text), Len(text')) - 1) :
       i >= Len(text) \/ i >= Len(text') \/ text[i + 1] # text'[i + 1]}

\* C23: when set_text takes a text that differs from the old text at a char
\* index below the old stable boundary, the new stable boundary is the
\* common prefix length, shorter than the old boundary, and no char that
\* changed in the update lies below the new boundary.
C23_CorrectionShortensBoundary ==
    [][(SetTextStep /\ \E i \in ChangedIdx : i < stable_len) =>
         /\ stable_len' = common_prefix_len(text, text')
         /\ stable_len' < stable_len
         /\ \A i \in ChangedIdx : i >= stable_len']_vars

\* C24: when a set_text call makes the volatile region go from empty to
\* non-empty, or moves the stable boundary to a smaller index, the anchor
\* after the call is the time passed to the call.
C24_AnchorResetOnNewVolatile ==
    [][(/\ SetTextStep
        /\ \/ (stable_len = Len(text) /\ Len(text') > stable_len')
           \/ stable_len' < stable_len) =>
         animation_start_ms' = clock]_vars

\* C39: set_text with the text that is the current source text changes
\* nothing: not the anchor, not the stable boundary, not the texts, the
\* cursor or the mode.
C39_SameTextChangesNothing ==
    [][(ui_op'.name = "set_text" /\ ui_op'.appended = 0) =>
         UNCHANGED <<frozen_text, text, stable_len, animation_start_ms,
                     cursor_pos, mode>>]_vars

\* the current text, part of it volatile, was submitted again in Listening
\* mode later than its anchor
C39_Witness ==
    /\ ui_op.name = "set_text"
    /\ ui_op.appended = 0
    /\ ~ui_op.changed
    /\ mode = "Listening"
    /\ stable_len < Len(text)
    /\ clock > animation_start_ms

----------------------------------------------------------------------------
(* Properties of the edit lifecycle.                                        *)

\* C12: start_editing() called in Listening mode with frozen text F and
\* source text T leaves the edit buffer equal to F followed by T, the cursor
\* at the char length of the buffer, the source text empty, the stable
\* boundary 0 and the mode Editing; full_text() is what it was.
C12_StartEditingCombinesText ==
    [][(ui_op'.name = "start_editing" /\ mode = "Listening") =>
         /\ frozen_text' = frozen_text \o text
         /\ cursor_pos' = Len(frozen_text) + Len(text)
         /\ text' = <<>>
         /\ stable_len' = 0
         /\ mode' = "Editing"
         /\ frozen_text' \o text' = full_text]_vars

\* start_editing was called in Listening mode with a non-empty frozen text
\* and a non-empty source text that had a settled char
C12_Witness ==
    /\ ui_op.name = "start_editing"
    /\ ui_op.changed
    /\ ui_op.old_len >= 1
    /\ ui_op.old_stable >= 1
    /\ Len(frozen_text) > ui_op.old_len
    /\ mode = "Editing"

\* C13: cancel_editing(snapshot), called while Editing with the full text
\* saved when editing began, leaves full_text() equal to that text, the
\* source text empty, the stable boundary 0 and the mode Listening.
C13_CancelRestoresSnapshot ==
    [][(ui_op'.name = "cancel_editing" /\ mode = "Editing") =>
         /\ frozen_text' \o text' = original
         /\ text' = <<>>
         /\ stable_len' = 0
         /\ mode' = "Listening"]_vars

\* an edit that changed a non-empty buffer was cancelled
C13_Witness ==
    /\ ui_op.name = "cancel_editing"
    /\ ui_op.changed
    /\ ui_op.old_len >= 1
    /\ ui_op.cp < ui_op.old_len
    /\ Len(frozen_text) = ui_op.old_len
    /\ mode = "Listening"

\* C14: finish_editing_with_freeze(), called while Editing, leaves the
\* frozen text equal to the edit buffer, the source text empty, the stable
\* boundary 0 and the mode Listening; a set_text call that follows it with a
\* non-empty text is taken.
C14_FinishFreezesBuffer ==
    [][/\ (ui_op'.name = "finish_editing_with_freeze" /\ mode = "Editing") =>
            /\ frozen_text' = frozen_text
            /\ text' = <<>>
            /\ stable_len' = 0
            /\ mode' = "Listening"
       /\ (/\ ui_op.name = "finish_editing_with_freeze"
           /\ ui_op.changed
           /\ ui_op'.name = "set_text"
           /\ ui_op'.appended >= 1) =>
            /\ ui_op'.changed
            /\ Len(text') = ui_op'.appended]_vars

\* an edit that changed the buffer was committed, leaving a non-empty frozen
\* text
C14_Witness ==
    /\ ui_op.name = "finish_editing_with_freeze"
    /\ ui_op.changed
    /\ (ui_op.cp < ui_op.old_len \/ ui_op.cp < Len(frozen_text))
    /\ Len(frozen_text) >= 1
    /\ mode = "Listening"

\* C15: a set_text call made while the mode is Editing leaves the frozen
\* text, the source text, the stable boundary, the anchor, the cursor and the
\* mode as they were.
C15_SetTextIgnoredWhileEditing ==
    [][(ui_op'.name = "set_text" /\ mode = "Editing") =>
         UNCHANGED <<frozen_text, text, stable_len, animation_start_ms,
                     cursor_pos, mode>>]_vars

\* set_text was called with a non-empty text, later than time 0, while
\* Editing a non-empty buffer
C15_Witness ==
    /\ ui_op.name = "set_text"
    /\ mode = "Editing"
    /\ ui_op.appended >= 1
    /\ ~ui_op.changed
    /\ text = <<>>
    /\ frozen_text # <<>>
    /\ clock > 0

\* C17: while the mode is Editing the cursor index is between 0 and the char
\* length of the edit buffer.
C17_CursorWithinBuffer ==
    mode = "Editing" => (0 <= cursor_pos /\ cursor_pos <= Len(frozen_text))

\* the char under the cursor was deleted and the cursor is at the end of a
\* non-empty buffer
C17_Witness ==
    /\ mode = "Editing"
    /\ ui_op.name = "delete_forward"
    /\ ui_op.changed
    /\ cursor_pos = Len(frozen_text)
    /\ cursor_pos >= 1

\* the operations of Ui the frozen text changes in
FrozenWriters ==
    {"start_editing", "insert_char", "delete_back", "delete_forward",
     "cancel_editing", "ensure_trailing_space", "reset"}

ClearText ==
    /\ frozen_text' = <<>>
    /\ text' = <<>>
    /\ stable_len' = 0
    /\ animation_start_ms' = 0
    /\ cursor_pos' = 0
    /\ ui_op' = UiOp("clear")
    /\ UNCHANGED <<mode, clock, original, non_ui_vars>>

\* the operations of Ui that write the source text or the stable boundary,
\* at one moment of the caller's clock
BoundaryNext ==
    \/ SetText
    \/ Reset
    \/ ClearText
    \/ StartEditing
    \/ FinishEditingWithFreeze
    \/ CancelEditing

\* C33: after any sequence of set_text, start_editing,
\* finish_editing_with_freeze, cancel_editing, reset and clear the stable
\* boundary is at most the char length of the source text.
C33_BoundaryWithinText ==
    stable_len <= Len(text)

\* a set_text made the text shorter than the stable boundary was, and the
\* boundary is now the length of the text
C33_Witness ==
    /\ ui_op.name = "set_text"
    /\ ui_op.changed
    /\ ui_op.old_stable > Len(text)
    /\ stable_len = Len(text)
    /\ Len(text) >= 1

----------------------------------------------------------------------------
(* Layout: Ui::lines_needed, a function of the terminal width, of the char  *)
(* count of frozen_text and text, and of show_controls.                     *)

\* lines_needed is called with a width in 0..MaxWidth while the transcript
\* has 0..MaxChars chars
MaxWidth == 10
MaxChars == 25

\* usize::saturating_sub
saturating_sub(a, b) == IF a >= b THEN a - b ELSE 0

\* Ui::lines_needed, total_char_count() being char_count
lines_needed(w, char_count, show_controls) ==
    IF w = 0 THEN 1
    ELSE LET first_line_width == saturating_sub(w, 2)
             content_lines ==
               IF char_count = 0 \/ first_line_width = 0 THEN 1
               ELSE IF char_count <= first_line_width THEN 1
               ELSE LET remaining == char_count - first_line_width
                    IN  1 + ((remaining + w - 1) \div w)
         IN  IF show_controls THEN content_lines + 1 ELSE content_lines

NoCall == [fn |-> "none", width |-> 0, char_count |-> 0,
           show_controls |-> FALSE, result |-> 0]

LayoutInit == call = NoCall

\* a call of Ui::lines_needed
LinesNeeded ==
    \E w \in 0..MaxWidth, n \in 0..MaxChars, sc \in BOOLEAN :
      /\ call' = [fn |-> "lines_needed", width |-> w, char_count |-> n,
                  show_controls |-> sc,
                  result |-> lines_needed(w, n, sc)]
      /\ UNCHANGED non_layout_vars

LayoutNext == LinesNeeded

\* the least k with k * d >= a, for a >= 0 and d >= 1
CeilDiv(a, d) == (a + d - 1) \div d

\* C16: for every width >= 1 and every char count n, lines_needed(width)
\* is 1 when n <= width - 2 and 1 + ceil((n - (width - 2)) / width)
\* otherwise, plus one when the controls line is visible (the 2 columns of
\* the status prefix taken off the first row, none below 0); it is 3 for
\* width 10, n = 25 and no controls line.
C16_LinesNeededFormula ==
    (call.fn = "lines_needed" /\ call.width >= 1) =>
      LET first == saturating_sub(call.width, 2)
          rows == IF call.char_count <= first THEN 1
                  ELSE 1 + CeilDiv(call.char_count - first, call.width)
      IN  /\ call.result = rows + (IF call.show_controls THEN 1 ELSE 0)
          /\ (call.width = 10 /\ call.char_count = 25 /\ ~call.show_controls)
               => call.result = 3

----------------------------------------------------------------------------
(* Ui::render: the frame Ui draws on an InlineSurface.  A colour is named   *)
(* by a string; the colour of a fading char by its age, which the fade      *)
(* saturates at its duration.  spinner_frame is 0, as after Ui::new.        *)

\* render is called on surfaces of width 0..MaxRenderWidth, and of the widths
\* at which the controls line changes its labels, and of height
\* 0..MaxRenderHeight
MaxRenderWidth == 3
MaxRenderHeight == 2

\* ColorAttribute::PaletteIndex(n)
Palette(n) == "palette" \o ToString(n)

\* Ui::dim_color
dim_color == Palette(8)

\* the colour char_animation_color gives a char of this age
FadeColor(age) == "fade" \o ToString(Min(age, CHAR_FADE_DURATION_MS))

\* Ui::white_color: rgb(1.0, 1.0, 1.0), the colour the fade ends in
white_color == FadeColor(CHAR_FADE_DURATION_MS)

SpinnerStates == {"Loading", "Listening", "Idle"}

\* Ui::spinner_glyph at spinner_frame 0: the glyph and its colour
spinner_glyph(spinner_state) ==
    CASE spinner_state = "Loading" -> <<"LOADING_FRAMES[0]", dim_color>>
      [] spinner_state = "Listening" -> <<"dot", "red227">>
      [] OTHER -> <<"ring", dim_color>>

\* the chars of "Speak now..."
Placeholder ==
    <<"S", "p", "e", "a", "k", " ", "n", "o", "w", ".", ".", ".">>

\* CONTROLS_LISTENING and CONTROLS_EDITING; key_len is key.len(), the byte
\* length of the key
CONTROLS_LISTENING ==
    <<[key |-> <<"E", "n", "t", "e", "r">>, key_len |-> 5,
       label |-> <<"f", "i", "n", "i", "s", "h">>,
       short |-> <<"f", "i", "n">>, color |-> 3],
      [key |-> <<"^", "E">>, key_len |-> 2,
       label |-> <<"e", "d", "i", "t">>,
       short |-> <<"e", "d", "t">>, color |-> 5],
      [key |-> <<"^", "R">>, key_len |-> 2,
       label |-> <<"r", "e", "s", "t", "a", "r", "t">>,
       short |-> <<"r", "s", "t">>, color |-> 4],
      [key |-> <<"^", "C">>, key_len |-> 2,
       label |-> <<"c", "a", "n", "c", "e", "l">>,
       short |-> <<"e", "s", "c">>, color |-> 1]>>

CONTROLS_EDITING ==
    <<[key |-> <<"E", "n", "t", "e", "r">>, key_len |-> 5,
       label |-> <<"d", "o", "n", "e">>,
       short |-> <<"d", "o", "n", "e">>, color |-> 3],
      [key |-> <<"E", "s", "c">>, key_len |-> 3,
       label |-> <<"c", "a", "n", "c", "e", "l">>,
       short |-> <<"e", "s", "c">>, color |-> 1],
      [key |-> <<"left", "right">>, key_len |-> 6,
       label |-> <<"m", "o", "v", "e">>,
       short |-> <<"m", "v">>, color |-> 8]>>

\* "let controls = match self.mode"
Controls(m) == IF m = "Listening" THEN CONTROLS_LISTENING ELSE CONTROLS_EDITING

RECURSIVE SumLen(_, _, _)
\* the sum over the controls from i on of key.len() + 1 + label.len() + 3
SumLen(controls, i, short) ==
    IF i > Len(controls) THEN 0
    ELSE controls[i].key_len + 1
         + Len(IF short THEN controls[i].short ELSE controls[i].label) + 3
         + SumLen(controls, i + 1, short)

\* full_width and short_width of render_controls
full_width(m) == saturating_sub(SumLen(Controls(m), 1, FALSE), 3)
short_width(m) == saturating_sub(SumLen(Controls(m), 1, TRUE), 3)

\* the cells of chars, all with attrs
Cells(chars, attrs) == [k \in 1..Len(chars) |-> CellNew(chars[k], attrs)]

RECURSIVE control_cells(_, _, _, _)
\* the cells render_controls writes for the controls from i on, in order,
\* on a row wide enough for all of them
control_cells(controls, i, use_short, use_minimal) ==
    IF i > Len(controls) THEN <<>>
    ELSE LET ctrl == controls[i]
             sep == IF use_minimal THEN <<" ">> ELSE <<" ", "bullet", " ">>
             label == IF use_short THEN ctrl.short ELSE ctrl.label
         IN  (IF i > 1 THEN Cells(sep, dim_color) ELSE <<>>)
             \o Cells(ctrl.key, Palette(ctrl.color))
             \o (IF use_minimal THEN <<>>
                 ELSE <<CellNew(" ", Default)>> \o Cells(label, dim_color))
             \o control_cells(controls, i + 1, use_short, use_minimal)

\* the cells of the controls line on a row of w columns: every write of
\* render_controls is under "col < width", so the row takes the first w
controls_line(m, w) ==
    LET use_short == full_width(m) > w /\ short_width(m) <= w
        use_minimal == short_width(m) > w
        cells == control_cells(Controls(m), 1, use_short, use_minimal)
    IN  SubSeq(cells, 1, Min(Len(cells), w))

RECURSIVE write_cells(_, _, _, _)
\* set_cell(col, row, cells[k]) for col = k - 1, from k on
write_cells(ls, row, cells, k) ==
    IF k > Len(cells) THEN ls
    ELSE write_cells(set_cell(ls, k - 1, row, cells[k]), row, cells, k + 1)

\* Ui::render_controls
render_controls(ls, row) == write_cells(ls, row, controls_line(mode, width), 1)

char_animation_color_without_delay(index, relative_time) ==
    IF relative_time < 0 THEN {} ELSE {FadeColor(relative_time)}

\* Ui::char_animation_color: the empty set is None, {c} is Some(c)
char_animation_color(index, relative_time) ==
    LET appear_time == index * CHAR_FADE_DELAY_MS
    IN  IF relative_time < appear_time THEN {}
        ELSE {FadeColor(relative_time - appear_time)}

\* the chars of frozen_text with the colour they are drawn in; idx is the
\* index of the char in full_text()
frozen_items ==
    [k \in 1..Len(frozen_text) |->
       [ch |-> frozen_text[k], color |-> {white_color}, idx |-> k - 1]]

\* the chars of text with the colour render_transcription gives them, None
\* for a char that is not visible yet
text_items(relative_time) ==
    [k \in 1..Len(text) |->
       [ch |-> text[k],
        color |-> IF k - 1 < stable_len THEN {white_color}
                  ELSE char_animation_color(k - 1 - stable_len,
                                            relative_time),
        idx |-> Len(frozen_text) + k - 1]]

IsSome(item) == item.color # {}

\* Ui::attrs(fg)
attrs(fg) == fg

render_char_without_wrap_check(p, item, max_rows) ==
    IF p.row >= max_rows THEN [p EXCEPT !.full = TRUE]
    ELSE LET wrap == p.col >= width
             row == IF wrap THEN p.row + 1 ELSE p.row
             col == IF wrap THEN 0 ELSE p.col
             fg == CHOOSE c \in item.color : TRUE
         IN  [lines |-> set_cell(p.lines, col, row,
                                 CellNew(item.ch, attrs(fg))),
              row |-> row,
              col |-> col + 1,
              placed |-> Append(p.placed,
                                [idx |-> item.idx, row |-> row, col |-> col]),
              full |-> FALSE]

\* Ui::render_char on the pen p (the grid, row and col, and the chars placed
\* so far); full is set when it returns false
render_char(p, item, max_rows) ==
    IF p.row >= max_rows THEN [p EXCEPT !.full = TRUE]
    ELSE LET wrap == p.col >= width
             row == IF wrap THEN p.row + 1 ELSE p.row
             col == IF wrap THEN 0 ELSE p.col
             fg == CHOOSE c \in item.color : TRUE
         IN  IF row >= max_rows
             THEN [p EXCEPT !.row = row, !.col = col, !.full = TRUE]
             ELSE [lines |-> set_cell(p.lines, col, row,
                                      CellNew(item.ch, attrs(fg))),
                   row |-> row,
                   col |-> col + 1,
                   placed |-> Append(p.placed,
                                     [idx |-> item.idx, row |-> row,
                                      col |-> col]),
                   full |-> FALSE]

RECURSIVE render_chars(_, _, _, _)
\* "if !self.render_char(..) { return; }" for the items from k on
render_chars(p, items, k, max_rows) ==
    IF k > Len(items) THEN p
    ELSE LET q == render_char(p, items[k], max_rows)
         IN  IF q.full THEN q ELSE render_chars(q, items, k + 1, max_rows)

\* Ui::render_transcription: a char that is not visible yet is passed over
render_transcription(p, elapsed_ms, max_rows) ==
    render_chars(p,
                 frozen_items
                   \o SelectSeq(text_items(elapsed_ms - animation_start_ms),
                                IsSome),
                 1, max_rows)

\* Ui::render_editable
render_editable(p, max_rows) == render_chars(p, frozen_items, 1, max_rows)

RECURSIVE render_text(_, _, _, _, _)
\* Ui::render_text from the char k of txt on
render_text(p, txt, fg, k, max_rows) ==
    IF k > Len(txt) \/ p.row >= max_rows \/ p.col >= width THEN p
    ELSE render_text([p EXCEPT !.lines = set_cell(p.lines, p.col, p.row,
                                                  CellNew(txt[k], fg)),
                               !.col = p.col + 1],
                     txt, fg, k + 1, max_rows)

\* "let content_rows = if self.show_controls { height.saturating_sub(1) }
\* else { height }"
content_rows(show_controls) ==
    IF show_controls THEN saturating_sub(height, 1) ELSE height

\* Ui::is_empty
is_empty == frozen_text = <<>> /\ text = <<>>

\* Ui::render(surface, elapsed_ms): the grid it leaves and the chars of
\* full_text() it placed, with the cell of each
render(show_controls, show_placeholder, spinner_state, elapsed_ms) ==
    LET cleared == [y \in 1..height |->
                      fill_range(lines[y], 0, width, CellBlank)]
    IN  IF width = 0 \/ height = 0
        THEN [lines |-> cleared, placed |-> <<>>]
        ELSE
          LET glyph == spinner_glyph(spinner_state)
              spinner == set_cell(cleared, 0, 0,
                                  CellNew(glyph[1], attrs(glyph[2])))
              gap == set_cell(spinner, 1, 0, CellNew(" ", Default))
              max_rows == content_rows(show_controls)
              p == [lines |-> gap, row |-> 0, col |-> 2, placed |-> <<>>,
                    full |-> FALSE]
              q == IF is_empty
                   THEN IF show_placeholder
                        THEN render_text(p, Placeholder, attrs(dim_color), 1,
                                         max_rows)
                        ELSE p
                   ELSE IF mode = "Editing"
                   THEN render_editable(p, max_rows)
                   ELSE render_transcription(p, elapsed_ms, max_rows)
          IN  [lines |-> IF show_controls /\ height > 0
                         THEN render_controls(q.lines, height - 1)
                         ELSE q.lines,
               placed |-> q.placed]

\* the widths render is called with
RenderWidths ==
    (0..MaxRenderWidth)
      \cup {short_width("Listening"), full_width("Listening")}

\* the anchors a Ui can hold at the time clock
Anchors ==
    {clock - k * TickMs : k \in 0..((clock + MaxBackShiftMs) \div TickMs)}

\* the texts of at most n chars, all of them c: which chars a text is made
\* of plays no part in where render places them
Repeated(c, n) == {[k \in 1..m |-> c] : m \in 0..n}

\* a Ui with a transcript, on a fresh surface, at some moment of the
\* caller's clock: Editing leaves the source text empty, and the stable
\* boundary is within the source text
RenderInit ==
    /\ width \in RenderWidths
    /\ height \in 0..MaxRenderHeight
    /\ lines = NewLines(width, height)
    /\ prev_lines = NewLines(width, height)
    /\ last_op = Op("new", -1)
    /\ changes = <<>>
    /\ frozen_text \in Repeated("b", MaxFrozenLen)
    /\ mode \in {"Listening", "Editing"}
    /\ text \in IF mode = "Editing" THEN {<<>>}
                ELSE Repeated("a", MaxTextLen)
    /\ stable_len \in 0..Len(text)
    /\ clock \in {MaxTicks * TickMs}
    /\ animation_start_ms \in Anchors
    /\ cursor_pos = 0
    /\ ui_op = UiOp("new")
    /\ original = <<>>
    /\ call = NoCall

\* Ui::render(surface, clock); the frame does not depend on what the
\* surface held before (surface.clear() comes first), so one call on the
\* fresh surface is explored
UiRender ==
    \E show_controls \in BOOLEAN, show_placeholder \in BOOLEAN,
       spinner_state \in SpinnerStates :
      LET frame == render(show_controls, show_placeholder, spinner_state,
                          clock)
      IN  /\ last_op.name = "new"
          /\ lines' = frame.lines
          /\ last_op' = Op("render", -1)
          /\ changes' = <<>>
          /\ call' = [fn |-> "render",
                      show_controls |-> show_controls,
                      show_placeholder |-> show_placeholder,
                      spinner_state |-> spinner_state,
                      placed |-> frame.placed]
          /\ UNCHANGED <<width, height, prev_lines, ui_vars, term_vars,
                         session_vars>>

RenderNext == UiRender

\* a render has drawn on a surface with cells
Rendered == call.fn = "render" /\ width > 0 /\ height > 0

\* the rows of the frame that may hold transcript chars: all but the last
\* one when the controls line is visible
RowBudget == IF call.show_controls THEN height - 1 ELSE height

\* the cells these rows have for transcript chars: the first row less the 2
\* columns of the status prefix, and the whole of every other row
CellBudget ==
    IF RowBudget = 0 THEN 0
    ELSE saturating_sub(width, 2) + width * (RowBudget - 1)

\* the r-th of these cells (r from 0), as <<col, row>>
ContentCell(r) ==
    LET first == saturating_sub(width, 2)
    IN  IF r < first THEN <<r + 2, 0>>
        ELSE <<(r - first) % width, 1 + ((r - first) \div width)>>

\* the char at index j of full_text() is due at the time of the render: a
\* frozen char, a char below the stable boundary, or a volatile char whose
\* index i from the boundary has now - anchor >= i * 20 ms
Due(j) ==
    LET i == j - Len(frozen_text) - stable_len
    IN  i < 0 \/ clock - animation_start_ms >= i * CHAR_FADE_DELAY_MS

\* the indices of the chars the render wrote
WrittenIdx == {call.placed[k].idx : k \in 1..Len(call.placed)}

\* C25: in a Listening-mode render at time now, a volatile char at index i
\* from the stable boundary is written if and only if now - anchor >= i * 20
\* ms and the row budget is not exhausted by the chars due before it; every
\* frozen char and every char below the boundary is written whatever the
\* time, within the same budget; a withheld char occupies no cell: the
\* chars written fill the content cells in order, without a gap, and the
\* content cells after them are blank.
C25_VolatileCharsAppearInTurn ==
    (Rendered /\ mode = "Listening" /\ ~is_empty) =>
      /\ \A j \in 0..(Len(full_text) - 1) :
           j \in WrittenIdx <=>
             /\ Due(j)
             /\ Cardinality({i \in 0..(j - 1) : Due(i)}) < CellBudget
      /\ \A k \in 1..Len(call.placed) :
           LET at == ContentCell(k - 1)
           IN  /\ call.placed[k].col = at[1]
               /\ call.placed[k].row = at[2]
               /\ lines[at[2] + 1][at[1] + 1].ch
                    = full_text[call.placed[k].idx + 1]
      /\ \A r \in Len(call.placed)..(CellBudget - 1) :
           lines[ContentCell(r)[2] + 1][ContentCell(r)[1] + 1] = CellBlank

\* a render, later than the anchor, of a frozen char, a settled char, a
\* volatile char that is due and one that is not, with room for all of them
C25_Witness ==
    /\ Rendered
    /\ mode = "Listening"
    /\ Len(frozen_text) >= 1
    /\ stable_len >= 1
    /\ Len(text) = stable_len + 2
    /\ clock - animation_start_ms > 0
    /\ clock - animation_start_ms < CHAR_FADE_DELAY_MS
    /\ Len(call.placed) = Len(full_text) - 1
    /\ CellBudget >= Len(full_text)

\* the cells of the controls line on the last row of the surface
HintCell(x) ==
    LET hints == controls_line(mode, width)
    IN  IF x < Len(hints) THEN hints[x + 1] ELSE CellBlank

\* C26: render writes no transcript char to a row at or beyond the content
\* row budget, the chars that do not fit are not drawn, and when the
\* controls line is visible the last row of the surface holds the key-hint
\* cells and nothing else.
C26_TranscriptWithinRowBudget ==
    Rendered =>
      /\ \A k \in 1..Len(call.placed) :
           /\ call.placed[k].row < RowBudget
           /\ call.placed[k].col < width
      /\ Len(call.placed) <= CellBudget
      /\ call.show_controls =>
           \A x \in 0..(width - 1) : lines[height][x + 1] = HintCell(x)

\* a render with the controls line, of more chars than the content rows
\* hold, on a surface of two rows
C26_Witness ==
    /\ Rendered
    /\ call.show_controls
    /\ height = 2
    /\ Len(full_text) > CellBudget
    /\ Len(call.placed) = CellBudget
    /\ CellBudget >= 1

\* the surface has the height lines_needed gives for its width, and every
\* char is visible: the mode is Editing, or every fade has started
SizedAsNeeded ==
    /\ Rendered
    /\ ~is_empty
    /\ height = lines_needed(width, Len(full_text), call.show_controls)
    /\ mode = "Editing" \/ \A j \in 0..(Len(full_text) - 1) : Due(j)

\* C36: when the height of the surface is lines_needed(width) and every
\* char is visible, render writes every char of the frozen text and of the
\* source text to the grid, for every width >= 1.
C36_NeededHeightHoldsAllChars ==
    SizedAsNeeded => WrittenIdx = 0..(Len(full_text) - 1)

\* the same on surfaces of 3 columns or more, where the first row has room
\* for a char after the status prefix
C36_FromThreeColumns ==
    width >= 3 => C36_NeededHeightHoldsAllChars

----------------------------------------------------------------------------
(* Ui::cursor_screen_position: where the terminal cursor goes in a frame   *)
(* of Editing mode.                                                         *)

\* the edit buffer is drawn with up to MaxBufferLen chars
MaxBufferLen == 4

cursor_screen_position_without_prefix(w) ==
    IF mode # "Editing" \/ w = 0 THEN {}
    ELSE {<<cursor_pos % w, cursor_pos \div w>>}

\* Ui::cursor_screen_position(width): None, or Some((col, row))
cursor_screen_position(w) ==
    IF mode # "Editing" \/ w = 0 THEN {}
    ELSE LET first_line_width == saturating_sub(w, 2)
         IN  IF cursor_pos < first_line_width
             THEN {<<cursor_pos + 2, 0>>}
             ELSE LET pos_after_first == cursor_pos - first_line_width
                  IN  {<<pos_after_first % w, 1 + (pos_after_first \div w)>>}

\* a Ui that is Editing a buffer, the cursor anywhere in it, on a fresh
\* surface with rows enough for the buffer at any width
CursorInit ==
    /\ width \in 0..MaxRenderWidth
    /\ height \in 0..(MaxBufferLen + 2)
    /\ lines = NewLines(width, height)
    /\ prev_lines = NewLines(width, height)
    /\ last_op = Op("new", -1)
    /\ changes = <<>>
    /\ frozen_text \in Repeated("b", MaxBufferLen)
    /\ text = <<>>
    /\ stable_len = 0
    /\ animation_start_ms = 0
    /\ mode = "Editing"
    /\ cursor_pos \in 0..Len(frozen_text)
    /\ clock = 0
    /\ ui_op = UiOp("new")
    /\ original = <<>>
    /\ call = NoCall

\* a frame of Editing mode: Ui::render(surface, clock), then
\* Ui::cursor_screen_position(width) for the cursor of the terminal
RenderEditing ==
    \E show_controls \in BOOLEAN :
      LET frame == render(show_controls, FALSE, "Listening", clock)
      IN  /\ last_op.name = "new"
          /\ lines' = frame.lines
          /\ last_op' = Op("render", -1)
          /\ changes' = <<>>
          /\ call' = [fn |-> "render",
                      show_controls |-> show_controls,
                      show_placeholder |-> FALSE,
                      spinner_state |-> "Listening",
                      placed |-> frame.placed,
                      cursor |-> cursor_screen_position(width)]
          /\ UNCHANGED <<width, height, prev_lines, ui_vars, term_vars,
                         session_vars>>

CursorNext == RenderEditing

\* the cell the next char would be written to after the chars placed: the
\* cell after the last one, on the next row when the row is full
NextCell ==
    LET n == Len(call.placed)
        col == IF n = 0 THEN 2 ELSE call.placed[n].col + 1
        row == IF n = 0 THEN 0 ELSE call.placed[n].row
    IN  IF col >= width THEN <<0, row + 1>> ELSE <<col, row>>

\* C37: in Editing mode, for every width >= 1, cursor_screen_position
\* returns the (column, row) of the cell the render wrote the char at the
\* cursor index to; with the cursor at the end of the buffer it returns the
\* cell the next char would be written to.
C37_CursorOnItsChar ==
    (call.fn = "render" /\ mode = "Editing" /\ width >= 1) =>
      /\ call.cursor # {}
      /\ \A k \in 1..Len(call.placed) :
           call.placed[k].idx = cursor_pos =>
             /\ call.cursor = {<<call.placed[k].col, call.placed[k].row>>}
             /\ lines[call.placed[k].row + 1][call.placed[k].col + 1].ch
                  = frozen_text[cursor_pos + 1]
      /\ (cursor_pos = Len(frozen_text)
            /\ Len(call.placed) = Len(frozen_text)) =>
           call.cursor = {NextCell}

\* the cursor is on a char of the buffer that the render wrote to a wrapped
\* row, past the first column
C37_Witness ==
    /\ call.fn = "render"
    /\ mode = "Editing"
    /\ width >= 2
    /\ cursor_pos < Len(frozen_text)
    /\ \E k \in 1..Len(call.placed) :
         /\ call.placed[k].idx = cursor_pos
         /\ call.placed[k].row >= 1
         /\ call.placed[k].col >= 1

\* the cursor is at the end of a buffer that fills its last row
C37_EndWitness ==
    /\ call.fn = "render"
    /\ mode = "Editing"
    /\ cursor_pos = Len(frozen_text)
    /\ Len(call.placed) = Len(frozen_text)
    /\ Len(frozen_text) >= 2
    /\ NextCell[1] = 0

----------------------------------------------------------------------------
(* Ui::render_controls: the key hints of the last row, in the form that    *)
(* the width allows.                                                        *)

\* the hints are drawn on rows of 0..MaxControlsWidth columns
MaxControlsWidth == 48

\* a Ui in either mode on a fresh surface of one row
ControlsInit ==
    /\ width \in 0..MaxControlsWidth
    /\ height = 1
    /\ lines = NewLines(width, height)
    /\ prev_lines = NewLines(width, height)
    /\ last_op = Op("new", -1)
    /\ changes = <<>>
    /\ frozen_text = <<>>
    /\ text = <<>>
    /\ stable_len = 0
    /\ animation_start_ms = 0
    /\ mode \in {"Listening", "Editing"}
    /\ cursor_pos = 0
    /\ clock = 0
    /\ ui_op = UiOp("new")
    /\ original = <<>>
    /\ call = NoCall

\* Ui::render_controls(surface, 0, width), as Ui::render calls it for the
\* last row of the surface
RenderControls ==
    /\ last_op.name = "new"
    /\ lines' = render_controls(lines, 0)
    /\ last_op' = Op("render_controls", -1)
    /\ changes' = <<>>
    /\ UNCHANGED <<width, height, prev_lines, non_surface_vars>>

ControlsNext == RenderControls

\* the hints of the mode m with full labels, with abbreviations, and the
\* keys only: a cell is a column
FullLine(m) == control_cells(Controls(m), 1, FALSE, FALSE)
ShortLine(m) == control_cells(Controls(m), 1, TRUE, FALSE)
MinimalLine(m) == control_cells(Controls(m), 1, FALSE, TRUE)

\* the longest of the three forms that fits w columns, the keys only when
\* none does
LongestFitting(m, w) ==
    IF Len(FullLine(m)) <= w THEN FullLine(m)
    ELSE IF Len(ShortLine(m)) <= w THEN ShortLine(m)
    ELSE MinimalLine(m)

\* the cells of row 0 of the grid, from the left, that a line of hints covers
HintsDrawn(line) == SubSeq(lines[1], 1, Min(Len(line), width))

\* C32: render_controls draws the hints with full labels when the line with
\* full labels fits the width in columns, with abbreviations when only the
\* abbreviated line fits, and the keys only when neither fits, in Listening
\* and in Editing mode.
C32_LongestFittingHints ==
    last_op.name = "render_controls" =>
      HintsDrawn(LongestFitting(mode, width))
        = SubSeq(LongestFitting(mode, width), 1,
                 Min(Len(LongestFitting(mode, width)), width))

\* the same for the hints of Listening mode, whose keys are ASCII
C32_ListeningHints ==
    mode = "Listening" => C32_LongestFittingHints

----------------------------------------------------------------------------
(* InlineTerminal: the surface drawn at the cursor of a terminal.  The      *)
(* terminal has rows 0..TermRows - 1, row 0 at the top; a relative cursor   *)
(* move stops at the first and at the last row.                             *)

\* an InlineTerminal is created with, and resized to, a height in
\* 0..MaxHeight, with the cursor of the terminal on a row in 0..MaxStartRow
MaxHeight == 2
MaxStartRow == 2

\* the columns of the terminal, the width InlineTerminal::new gives the
\* surface
TermCols == 1

\* rows enough for a region that starts on any start row
TermRows == MaxStartRow + MaxHeight + 1

\* Change::CursorPosition { x: Absolute(0), y: Relative(dy) }
CursorPositionRelative(dy) ==
    [kind |-> "CursorPosition", x |-> 0, y |-> dy, attrs |-> "", text |-> ""]

\* Change::CursorVisibility
CursorVisibility(v) ==
    [kind |-> "CursorVisibility", x |-> 0, y |-> 0, attrs |-> "", text |-> v]

\* Change::ClearToEndOfLine(ColorAttribute::Default)
ClearToEndOfLine ==
    [kind |-> "ClearToEndOfLine", x |-> 0, y |-> 0, attrs |-> Default,
     text |-> ""]

NoRow == -1

\* the columns of the screen: those of the widest terminal
ScreenWidth == TermCols + 1

\* a screen that shows nothing, the cursor in column 0 and the default style
\* active
BlankScreen ==
    [on |-> TRUE, col |-> 0, attrs |-> Default,
     cells |-> [r \in 0..(TermRows - 1) |-> LineWithWidth(ScreenWidth)]]

\* a screen that is not looked at: what it shows is not followed
NoScreen == [on |-> FALSE, col |-> 0, attrs |-> Default, cells |-> <<>>]

RECURSIVE terminal_render(_, _, _)
\* Terminal::render(&changes) from change i on.  t holds the cursor row and
\* visibility, the rows on which a line was cleared or text was written, the
\* first of these rows, and the screen: a cursor move sets the column and
\* moves the row, a set-style sets the active style, which stays active
\* until the next set-style, a text writes its glyph in the active style at
\* the cursor and advances the cursor, a clear blanks the row from the
\* cursor on.
terminal_render(chg, i, t) ==
    IF i > Len(chg) THEN t
    ELSE LET c == chg[i]
             moved == Max(0, Min(TermRows - 1, t.row + c.y))
             here == [t EXCEPT !.touched = @ \cup {t.row},
                               !.first = IF @ = NoRow THEN t.row ELSE @]
         IN  terminal_render(chg, i + 1,
               CASE c.kind = "CursorPosition" ->
                      [t EXCEPT !.row = moved, !.col = c.x]
                 [] c.kind = "CursorVisibility" ->
                      [t EXCEPT !.visible = (c.text = "Visible")]
                 [] c.kind = "AllAttributes" -> [t EXCEPT !.attrs = c.attrs]
                 [] c.kind = "ClearToEndOfLine" ->
                      [here EXCEPT !.cells[t.row] =
                         fill_range(@, t.col, ScreenWidth, CellBlank)]
                 [] c.kind = "Text" ->
                      [here EXCEPT !.cells[t.row] =
                         fill_range(@, t.col, t.col + 1,
                                    [ch |-> c.text, attrs |-> t.attrs]),
                                   !.col = t.col + 1]
                 [] OTHER -> t)

\* the terminal before a call of Terminal::render
Rendering == [row |-> terminal.row, visible |-> terminal.visible,
              touched |-> {}, first |-> NoRow, col |-> screen.col,
              attrs |-> screen.attrs,
              cells |-> IF screen.on THEN screen.cells ELSE BlankScreen.cells]

\* the screen of the terminal t
Shown(t) ==
    IF screen.on
    THEN [on |-> TRUE, col |-> t.col, attrs |-> t.attrs, cells |-> t.cells]
    ELSE screen

RECURSIVE render_rows(_)
\* "for row in 0..height" of InlineTerminal::render, from row on
render_rows(row) ==
    IF row >= height THEN <<>>
    ELSE (IF row > 0 THEN <<CursorPositionRelative(1)>> ELSE <<>>)
         \o <<ClearToEndOfLine>>
         \o get_line_changes(row)
         \o render_rows(row + 1)

\* the changes InlineTerminal::render hands to the terminal
render_changes ==
    (IF rendered_lines > 0 THEN <<CursorPositionRelative(-rendered_lines)>>
     ELSE <<>>)
    \o <<CursorVisibility("Hidden")>>
    \o render_rows(0)
    \o (IF height > 0 THEN <<CursorPositionRelative(-(height - 1))>>
        ELSE <<>>)

RECURSIVE cleanup_rows(_)
\* "for i in 0..self.rendered_lines" of InlineTerminal::cleanup, from i on
cleanup_rows(i) ==
    IF i >= rendered_lines THEN <<>>
    ELSE <<ClearToEndOfLine>>
         \o (IF i < rendered_lines - 1 THEN <<CursorPositionRelative(1)>>
             ELSE <<>>)
         \o cleanup_rows(i + 1)

\* the changes InlineTerminal::cleanup hands to the terminal
cleanup_changes ==
    (IF rendered_lines > 0 THEN <<CursorPositionRelative(-rendered_lines)>>
     ELSE <<>>)
    \o cleanup_rows(0)
    \o (IF rendered_lines > 1
        THEN <<CursorPositionRelative(-(rendered_lines - 1))>> ELSE <<>>)
    \o <<CursorVisibility("Visible")>>

\* The record of what the calls of InlineTerminal did: the call made last,
\* the row on which the last render drew row 0 of the surface and the row on
\* which the render before it did (since the last cleanup), the rows the
\* renders since the last cleanup drew on, and the rows the last cleanup
\* cleared.
NoFrames == [op |-> "new", row0 |-> NoRow, prev_row0 |-> NoRow,
             drawn |-> {}, cleared |-> {}, before |-> 0]

\* no InlineTerminal in use
TermIdle ==
    /\ rendered_lines = 0
    /\ terminal = [row |-> 0, visible |-> TRUE]
    /\ frames = NoFrames
    /\ screen = NoScreen

\* InlineTerminal::new(terminal, height), the cursor of the terminal on any
\* of the start rows
TermInit ==
    /\ \E h \in 0..MaxHeight :
         /\ width = TermCols
         /\ height = h
         /\ lines = NewLines(TermCols, h)
         /\ prev_lines = NewLines(TermCols, h)
    /\ last_op = Op("new", -1)
    /\ changes = <<>>
    /\ rendered_lines = 0
    /\ \E r \in 0..MaxStartRow : terminal = [row |-> r, visible |-> TRUE]
    /\ frames = NoFrames
    /\ screen = NoScreen

\* InlineTerminal::resize_height
ResizeHeight ==
    \E new_height \in 0..MaxHeight :
      /\ height' = new_height
      /\ lines' = NewLines(width, new_height)
      /\ prev_lines' = [y \in 1..new_height |->
                          fill_range(LineWithWidth(width), 0, width,
                                     CellNew(NUL, Default))]
      /\ last_op' = Op("invalidate", -1)
      /\ changes' = <<>>
      /\ frames' = [frames EXCEPT !.op = "resize_height"]
      /\ UNCHANGED <<width, rendered_lines, terminal, screen, non_term_vars>>

\* InlineTerminal::render
Render ==
    LET t == terminal_render(render_changes, 1, Rendering)
        fresh == frames.op = "cleanup"
    IN  /\ terminal' = [row |-> t.row, visible |-> t.visible]
        /\ screen' = Shown(t)
        /\ prev_lines' = commit_lines
        /\ last_op' = Op("commit", -1)
        /\ changes' = <<>>
        /\ rendered_lines' = height
        /\ frames' = [op |-> "render",
                      row0 |-> t.first,
                      prev_row0 |-> IF fresh THEN NoRow ELSE frames.row0,
                      drawn |-> IF fresh THEN t.touched
                                ELSE frames.drawn \cup t.touched,
                      cleared |-> {},
                      before |-> rendered_lines]
        /\ UNCHANGED <<width, height, lines, non_term_vars>>

\* InlineTerminal::cleanup
Cleanup ==
    LET t == terminal_render(cleanup_changes, 1, Rendering)
    IN  /\ terminal' = [row |-> t.row, visible |-> t.visible]
        /\ screen' = Shown(t)
        /\ rendered_lines' = 0
        /\ frames' = [frames EXCEPT !.op = "cleanup", !.cleared = t.touched]
        /\ UNCHANGED <<surface_vars, non_term_vars>>

TermNext ==
    \/ ResizeHeight
    \/ Render
    \/ Cleanup

\* C18: after a render the cursor is on the terminal row on which that
\* render drew row 0 of the surface, and that row is the row on which the
\* render before it drew row 0: the first row of the region does not move
\* between frames, whatever heights resize_height set in between.
C18_RegionStaysInPlace ==
    (frames.op = "render" /\ frames.row0 # NoRow) =>
      /\ terminal.row = frames.row0
      /\ frames.prev_row0 # NoRow => frames.row0 = frames.prev_row0

\* C19: after cleanup() every terminal row a render drew on is cleared, no
\* other row was cleared, the cursor is visible and rendered_lines is 0.
C19_CleanupClearsTheRegion ==
    frames.op = "cleanup" =>
      /\ frames.drawn \subseteq frames.cleared
      /\ frames.cleared \subseteq frames.drawn
      /\ terminal.visible
      /\ rendered_lines = 0

----------------------------------------------------------------------------
(* InlineTerminal::check_for_resize: the surface follows the width of the  *)
(* terminal.                                                                *)

\* the column counts Terminal::get_screen_size reports
ScreenCols == 1..(TermCols + 1)

\* the previous grid InlineSurface::invalidate leaves on a surface of w
\* columns and h rows
invalidated(w, h) ==
    [y \in 1..h |->
       fill_range(LineWithWidth(w), 0, w, CellNew(NUL, Default))]

\* what InlineTerminal held before a call
Held == [width |-> width, height |-> height, lines |-> lines,
         prev_lines |-> prev_lines, rendered_lines |-> rendered_lines]

\* InlineTerminal::check_for_resize on a terminal that reports cols columns:
\* the surface it leaves
check_for_resize(cols) ==
    IF width # cols
    THEN /\ width' = cols
         /\ lines' = NewLines(cols, height)
         /\ prev_lines' = invalidated(cols, height)
    ELSE UNCHANGED <<width, lines, prev_lines>>

\* InlineTerminal::check_for_resize
CheckForResize ==
    \E cols \in ScreenCols :
      /\ check_for_resize(cols)
      /\ call' = [fn |-> "check_for_resize", cols |-> cols,
                  ret |-> (width # cols), was |-> Held]
      /\ last_op' = Op("check_for_resize", -1)
      /\ changes' = <<>>
      /\ frames' = [frames EXCEPT !.op = IF width # cols THEN "resized"
                                         ELSE "check_for_resize"]
      /\ UNCHANGED <<height, rendered_lines, terminal, screen, ui_vars,
                     session_vars>>

\* InlineTerminal::surface, and a cell of the frame drawn through it
SurfaceSetCell ==
    \E x \in 0..MaxX, y \in 0..MaxY, cell \in CellInputs :
      /\ Cardinality(Drawn) <= MaxDrawn
      /\ lines' = set_cell(lines, x, y, cell)
      /\ last_op' = Op("set_cell", -1)
      /\ changes' = <<>>
      /\ call' = NoCall
      /\ UNCHANGED <<width, height, prev_lines, ui_vars, term_vars,
                     session_vars>>

ResizeNext ==
    \/ CheckForResize
    \/ SurfaceSetCell
    \/ Render

\* every cell of the grid g of the surface is a cell of its own
Allocated(g) ==
    /\ Len(g) = height
    /\ \A y \in 1..height : Len(g[y]) = width

\* the changes of the next render hold a text operation for every column of
\* every row
FullRepaint ==
    \A row \in 0..(height - 1) :
      {TextCol(get_line_changes(row), i) :
         i \in TextIdx(get_line_changes(row))} = 0..(width - 1)

\* what check_for_resize returns, and what it does to the grids and to
\* rendered_lines
C28_ResizeReallocates ==
    (call.fn = "check_for_resize" /\ last_op.name = "check_for_resize") =>
      /\ call.ret = (call.cols # call.was.width)
      /\ rendered_lines = call.was.rendered_lines
      /\ height = call.was.height
      /\ width = call.cols
      /\ Allocated(lines)
      /\ Allocated(prev_lines)
      /\ call.ret => lines = NewLines(width, height)
      /\ ~call.ret => /\ lines = call.was.lines
                      /\ prev_lines = call.was.prev_lines

\* C28: check_for_resize returns true exactly when the reported column count
\* differs from the width of the surface; then both grids are allocated anew
\* at the new width and the old height and, whatever is drawn next, the next
\* render repaints every cell; when the width is the same the surface and
\* rendered_lines are left as they were.
C28_CheckForResize ==
    /\ C28_ResizeReallocates
    /\ frames.op = "resized" => FullRepaint

----------------------------------------------------------------------------
(* Failing writes: Terminal::render returns an error to                     *)
(* InlineTerminal::render or InlineTerminal::cleanup.                       *)

\* the terminal after a write that failed: any number of the changes, from
\* the first on, have reached it
FailedWrites(chg) ==
    {terminal_render(SubSeq(chg, 1, k), 1, Rendering) : k \in 0..Len(chg)}

render_err_after_commit ==
    /\ prev_lines' = commit_lines
    /\ rendered_lines' = height

\* "self.terminal.render(&changes)...?" of InlineTerminal::render when the
\* write fails: the function returns before commit() and before the
\* assignment of rendered_lines
render_err ==
    UNCHANGED <<prev_lines, rendered_lines>>

\* One failing write is explored in a behaviour: no call has returned an
\* error yet
Usable == frames.op \notin {"render_failed", "cleanup_failed"}

\* InlineTerminal::render, the write to the terminal failing
RenderFailing ==
    \E t \in FailedWrites(render_changes) :
      /\ Usable
      /\ terminal' = [row |-> t.row, visible |-> t.visible]
      /\ screen' = Shown(t)
      /\ render_err
      /\ call' = [fn |-> "render", ret |-> "Err"]
      /\ frames' = [frames EXCEPT !.op = "render_failed"]
      /\ UNCHANGED <<width, height, lines, last_op, changes, ui_vars,
                     session_vars>>

\* "self.terminal.render(&changes)...?" of InlineTerminal::cleanup when the
\* write fails: the function returns before "self.rendered_lines = 0"
cleanup_err ==
    UNCHANGED rendered_lines

\* InlineTerminal::cleanup, the write to the terminal failing
CleanupFailing ==
    \E t \in FailedWrites(cleanup_changes) :
      /\ Usable
      /\ terminal' = [row |-> t.row, visible |-> t.visible]
      /\ screen' = Shown(t)
      /\ cleanup_err
      /\ call' = [fn |-> "cleanup", ret |-> "Err"]
      /\ frames' = [frames EXCEPT !.op = "cleanup_failed"]
      /\ UNCHANGED <<surface_vars, ui_vars, session_vars>>

\* InlineTerminal::surface, and the first cell of the frame drawn through it
SurfaceDraw ==
    \E cell \in CellInputs :
      /\ Usable
      /\ lines' = set_cell(lines, 0, 0, cell)
      /\ last_op' = Op("set_cell", -1)
      /\ changes' = <<>>
      /\ call' = NoCall
      /\ UNCHANGED <<width, height, prev_lines, ui_vars, term_vars,
                     session_vars>>

\* InlineTerminal::render, the write to the terminal succeeding
RenderWritten == Usable /\ Render

\* InlineTerminal::cleanup, the write to the terminal succeeding
CleanupWritten == Usable /\ Cleanup

WriteNext ==
    \/ SurfaceDraw
    \/ RenderWritten
    \/ RenderFailing
    \/ CleanupWritten
    \/ CleanupFailing

\* C29: when the write to the terminal fails during InlineTerminal::render,
\* render returns the error, the previous grid stays the one from before the
\* call (the current grid is not committed) and rendered_lines is unchanged;
\* when the write fails during cleanup, rendered_lines is unchanged.
C29_FailedWriteCommitsNothing ==
    [][/\ frames'.op = "render_failed" =>
            /\ call'.fn = "render" => call'.ret = "Err"
            /\ prev_lines' = prev_lines
            /\ rendered_lines' = rendered_lines
       /\ frames'.op = "cleanup_failed" =>
            /\ call'.fn = "cleanup" => call'.ret = "Err"
            /\ rendered_lines' = rendered_lines]_vars

\* a render failed with a frame drawn that a commit would have stored, on a
\* region higher than the one rendered last
C29_Witness ==
    /\ frames.op = "render_failed"
    /\ call.fn = "render"
    /\ lines # prev_lines
    /\ rendered_lines # height

\* a cleanup failed after a render had drawn rows
C29_CleanupWitness ==
    /\ frames.op = "cleanup_failed"
    /\ call.fn = "cleanup"
    /\ rendered_lines > 0

----------------------------------------------------------------------------
(* The screen: what the terminal shows after the frames InlineTerminal     *)
(* rendered on it.                                                          *)

\* InlineTerminal::new(terminal, height) on a terminal whose screen is
\* blank and is looked at
ScreenInit ==
    /\ \E h \in 0..MaxHeight :
         /\ width = TermCols
         /\ height = h
         /\ lines = NewLines(TermCols, h)
         /\ prev_lines = NewLines(TermCols, h)
    /\ last_op = Op("new", -1)
    /\ changes = <<>>
    /\ rendered_lines = 0
    /\ \E r \in 0..MaxStartRow : terminal = [row |-> r, visible |-> TRUE]
    /\ frames = NoFrames
    /\ screen = BlankScreen

ScreenNext ==
    \/ SurfaceSetCell
    \/ Clear
    \/ ResizeHeight
    \/ Render

\* the row of the screen that shows row y of the surface after a render
RegionRow(y) == frames.row0 + y

\* InlineTerminal::render has returned and nothing was called since
Returned == frames.op = "render" /\ last_op.name = "commit"

\* a render has drawn a region with cells
Framed == Returned /\ height > 0 /\ width > 0

\* C34: after every InlineTerminal::render the glyphs on the rows of the
\* region are the glyphs of the current grid in every column, the cells that
\* did not change since the frame before included.
C34_ScreenShowsGrid ==
    Framed =>
      \A y \in 0..(height - 1) : \A x \in 0..(width - 1) :
        screen.cells[RegionRow(y)][x + 1].ch = lines[y + 1][x + 1].ch

\* C35: every glyph InlineTerminal::render emits is drawn in the style of
\* its grid cell, on a terminal whose active style stays active across rows
\* and frames: a glyph on a row of the region, each of which the render
\* cleared first, has the style of the cell it was emitted for.
C35_GlyphsInCellStyle ==
    Framed =>
      \A y \in 0..(height - 1) : \A x \in 0..(width - 1) :
        screen.cells[RegionRow(y)][x + 1].ch # " " =>
          screen.cells[RegionRow(y)][x + 1] = lines[y + 1][x + 1]

\* C40: when resize_height made the region lower than the rows the frame
\* before drew, the next render leaves no glyph on a row of the screen that
\* is outside the region, and ends with the cursor on the first row of the
\* region.
C40_ShrunkRegionLeavesNoTrace ==
    (Returned /\ height < frames.before) =>
      /\ \A r \in 0..(TermRows - 1) :
           (height = 0 \/ r < RegionRow(0) \/ r > RegionRow(height - 1)) =>
             \A x \in 1..ScreenWidth : screen.cells[r][x].ch = " "
      /\ height > 0 => terminal.row = RegionRow(0)

----------------------------------------------------------------------------
(* Recognition sessions: App (src/src/main.rs) starts and stops speech      *)
(* recognizers; each started recognizer runs a producer thread that         *)
(* publishes into the shared transcription and flags.  The producers are    *)
(* those of the mock back end (src/src/speech/mock.rs) and of the Linux     *)
(* back end (src/src/speech/linux.rs).                                      *)

\* at most MaxSessions recognizers are started, and the mock producer has
\* MaxWords demo words
MaxSessions == 3
MaxWords == 2

Sessions == 1..MaxSessions

NoThread == [pc |-> "none", stop_signal |-> FALSE, left |-> 0]

\* the producer of session i has been spawned and has not returned
Running(i) == threads[i].pc \notin {"none", "done"}

\* SpeechRecognizerImpl::stop: "self.stop_signal.store(true, ..)"
stop(th, r) == IF r = 0 THEN th ELSE [th EXCEPT ![r].stop_signal = TRUE]

\* SpeechRecognizerImpl::start: "thread::spawn"
start(th, r) ==
    [th EXCEPT ![r] = [pc |-> IF target_os = "linux" THEN "setup"
                              ELSE "check",
                       stop_signal |-> FALSE,
                       left |-> MaxWords]]

\* SpeechRecognizerImpl::stop on Linux joins the producer thread: the caller
\* goes on when the thread has returned
joined(r) ==
    (target_os = "linux" /\ r # 0) => threads[r].pc \in {"none", "done"}

\* App::new: "previous_transcription_len: 0, animation_start_index: 0", and
\* no frame of run_app computed yet
NoTick == [previous_transcription_len |-> 0, animation_start_index |-> 0,
           terminal_width |-> 0, needed_height |-> 0, live |-> <<>>,
           drawn |-> FALSE]

\* App::new: "should_quit: false, exit_code: 0, frozen_text: String::new()",
\* run_app not returned, nothing written to stdout or to a command, the
\* process not exited; exec_command is set when the arguments hold a command
\* after "--"
NoExit == [should_quit |-> FALSE, exit_code |-> 0, frozen_text |-> <<>>,
           exec_command |-> FALSE, ended |-> "none", result |-> "running",
           out |-> [to |-> "none", text |-> <<>>], status |-> -1]

\* no recognition session
SessionIdle ==
    /\ target_os = "mock"
    /\ app_mode = "Recording"
    /\ app_pc = "idle"
    /\ recognizer = 0
    /\ live_transcription = <<>>
    /\ is_listening = FALSE
    /\ is_ready = FALSE
    /\ threads = [i \in Sessions |-> NoThread]
    /\ tick = NoTick
    /\ process = NoExit

\* App::new, in a build for Linux or for a platform with the mock back end
SessionInit ==
    /\ target_os \in {"mock", "linux"}
    /\ app_mode = "Recording"
    /\ app_pc = "idle"
    /\ recognizer = 0
    /\ live_transcription = <<>>
    /\ is_listening = FALSE
    /\ is_ready = FALSE
    /\ threads = [i \in Sessions |-> NoThread]
    /\ tick = NoTick

\* "self.recognizer = Some(SpeechRecognizer::new(..)); ...start()": the
\* recognizer held before is dropped, which stops it, and the new one is
\* started; the mock start sets both flags itself
NewRecognizer ==
    /\ recognizer < MaxSessions
    /\ joined(recognizer)
    /\ recognizer' = recognizer + 1
    /\ threads' = start(stop(threads, recognizer), recognizer + 1)
    /\ is_listening' = IF target_os = "mock" THEN TRUE
                       ELSE IF recognizer # 0 THEN FALSE ELSE is_listening

\* App::start_listening, called once by main
StartListening ==
    /\ recognizer = 0
    /\ app_pc = "idle"
    /\ NewRecognizer
    /\ is_ready' = IF target_os = "mock" THEN TRUE ELSE is_ready
    /\ UNCHANGED <<tick, target_os, app_mode, app_pc, live_transcription,
                   non_session_vars>>

\* App::stop_listening, as the first statement of restart, enter_edit_mode
\* and open_external_editor_direct
StopListening ==
    \E method \in {"restart", "enter_edit_mode",
                   "open_external_editor_direct"} :
      /\ app_pc = "idle"
      /\ app_mode = "Recording"
      /\ recognizer # 0
      /\ threads' = stop(threads, recognizer)
      /\ is_listening' = FALSE
      /\ app_pc' = method
      /\ UNCHANGED <<tick, target_os, app_mode, recognizer, live_transcription,
                     is_ready, non_session_vars>>

\* App::enter_edit_mode after stop_listening
EnterEditMode ==
    /\ app_pc = "enter_edit_mode"
    /\ joined(recognizer)
    /\ app_mode' = "Editing"
    /\ app_pc' = "idle"
    /\ UNCHANGED <<tick, target_os, recognizer, live_transcription, is_listening,
                   is_ready, threads, non_session_vars>>

\* App::restart and App::open_external_editor_direct after stop_listening:
\* the transcription is cleared and a fresh recognizer is started
Restart ==
    /\ app_pc \in {"restart", "open_external_editor_direct"}
    /\ live_transcription' = <<>>
    /\ NewRecognizer
    /\ is_ready' = (target_os = "mock")
    /\ app_pc' = "idle"
    /\ UNCHANGED <<tick, target_os, app_mode, non_session_vars>>

\* App::exit_edit_mode
ExitEditMode ==
    /\ app_pc = "idle"
    /\ app_mode = "Editing"
    /\ live_transcription' = <<>>
    /\ NewRecognizer
    /\ is_ready' = (target_os = "mock")
    /\ app_mode' = "Recording"
    /\ UNCHANGED <<tick, target_os, app_pc, non_session_vars>>

\* App::cancel_edit_mode
CancelEditMode ==
    /\ app_pc = "idle"
    /\ app_mode = "Editing"
    /\ NewRecognizer
    /\ is_ready' = (target_os = "mock")
    /\ app_mode' = "Recording"
    /\ UNCHANGED <<tick, target_os, app_pc, live_transcription, non_session_vars>>

\* mock producer: "if stop_signal.load(..) { break; }" at the head of the
\* loop over the demo words
MockCheck(i) ==
    /\ target_os = "mock"
    /\ threads[i].pc = "check"
    /\ threads' = [threads EXCEPT ![i].pc =
                     IF threads[i].stop_signal \/ threads[i].left = 0
                     THEN "exit" ELSE "sleep"]
    /\ UNCHANGED <<tick, target_os, app_mode, app_pc, recognizer,
                   live_transcription, is_listening, is_ready,
                   non_session_vars>>

\* mock producer: after the sleep, "trans.push_str(word)"
MockPush(i) ==
    /\ target_os = "mock"
    /\ threads[i].pc = "sleep"
    /\ live_transcription' = Append(live_transcription, i)
    /\ threads' = [threads EXCEPT ![i].pc = "check", ![i].left = @ - 1]
    /\ UNCHANGED <<tick, target_os, app_mode, app_pc, recognizer, is_listening,
                   is_ready, non_session_vars>>

\* Linux producer: the stream is set up, "is_ready.store(true, ..);
\* is_listening.store(true, ..)"
LinuxSetup(i) ==
    /\ target_os = "linux"
    /\ threads[i].pc = "setup"
    /\ is_ready' = TRUE
    /\ is_listening' = TRUE
    /\ threads' = [threads EXCEPT ![i].pc = "check"]
    /\ UNCHANGED <<tick, target_os, app_mode, app_pc, recognizer,
                   live_transcription, non_session_vars>>

\* Linux producer: "while !stop_signal.load(..)"
LinuxCheck(i) ==
    /\ target_os = "linux"
    /\ threads[i].pc = "check"
    /\ threads' = [threads EXCEPT ![i].pc =
                     IF threads[i].stop_signal THEN "final" ELSE "work"]
    /\ UNCHANGED <<tick, target_os, app_mode, app_pc, recognizer,
                   live_transcription, is_listening, is_ready,
                   non_session_vars>>

\* Linux producer: one turn of the loop, or the final result after it: the
\* transcription is replaced by the result when there is one
LinuxPublish(i) ==
    /\ target_os = "linux"
    /\ threads[i].pc \in {"work", "final"}
    /\ \E result \in {<<>>, <<i>>} :
         live_transcription' = IF result = <<>> THEN live_transcription
                               ELSE result
    /\ threads' = [threads EXCEPT ![i].pc =
                     IF threads[i].pc = "work" THEN "check" ELSE "exit"]
    /\ UNCHANGED <<tick, target_os, app_mode, app_pc, recognizer, is_listening,
                   is_ready, non_session_vars>>

\* both producers end with "is_listening.store(false, ..)"
ThreadExit(i) ==
    /\ threads[i].pc = "exit"
    /\ is_listening' = FALSE
    /\ threads' = [threads EXCEPT ![i].pc = "done"]
    /\ UNCHANGED <<tick, target_os, app_mode, app_pc, recognizer,
                   live_transcription, is_ready, non_session_vars>>

SessionNext ==
    \/ StartListening
    \/ StopListening
    \/ EnterEditMode
    \/ Restart
    \/ ExitEditMode
    \/ CancelEditMode
    \/ \E i \in Sessions : MockCheck(i)
    \/ \E i \in Sessions : MockPush(i)
    \/ \E i \in Sessions : LinuxSetup(i)
    \/ \E i \in Sessions : LinuxCheck(i)
    \/ \E i \in Sessions : LinuxPublish(i)
    \/ \E i \in Sessions : ThreadExit(i)

\* C20: at every moment at most one producer is running: when a new
\* recognizer is started the producer of the session before it has returned
\* and takes no further step.
C20_OneSessionActive ==
    Cardinality({i \in Sessions : Running(i)}) <= 1

\* App::restart after its stop_listening, as called for the restart key
RestartSession ==
    /\ app_pc = "restart"
    /\ Restart

\* sessions that are only ever replaced by App::restart
RestartNext ==
    \/ StartListening
    \/ StopListening
    \/ RestartSession
    \/ \E i \in Sessions : MockCheck(i)
    \/ \E i \in Sessions : MockPush(i)
    \/ \E i \in Sessions : LinuxSetup(i)
    \/ \E i \in Sessions : LinuxCheck(i)
    \/ \E i \in Sessions : LinuxPublish(i)
    \/ \E i \in Sessions : ThreadExit(i)

\* the step is a store of the producer of session i into the shared
\* transcription or into is_listening: the push of the mock producer, a
\* result published by the Linux producer, the stores of the Linux producer
\* after its setup, and the store at the end of both producers
Writes(i) ==
    \/ threads[i].pc = "sleep" /\ threads'[i].pc = "check"
    \/ /\ threads[i].pc \in {"work", "final"}
       /\ threads'[i].pc # threads[i].pc
       /\ live_transcription' # live_transcription
    \/ threads[i].pc = "setup" /\ threads'[i].pc = "check"
    \/ threads[i].pc = "exit" /\ threads'[i].pc = "done"

\* C38: after restart() has cleared the shared transcription and started the
\* new session, the producer of a session stopped before never writes to the
\* shared transcription or to is_listening again, under every interleaving
\* of the UI thread and the producer threads.
C38_StoppedProducerSilent ==
    [][\A i \in Sessions : i < recognizer => ~Writes(i)]_vars

----------------------------------------------------------------------------
(* The loop of run_app (src/src/main.rs): each turn updates the animation  *)
(* state, computes the height of the viewport and draws the frame, while   *)
(* the producer thread publishes into the shared transcription.            *)

\* App::full_transcription: "format!("{}{}", self.frozen_text, &*live)";
\* frozen_text is empty until an edit is confirmed
full_transcription(live) == live

\* "let needed_height = (content_lines + 1).min(10)" with content_lines the
\* rows of the transcription at the width of the terminal, at least 1
needed_height(transcription, terminal_width) ==
    Min(Max((Len(transcription) + terminal_width - 1) \div terminal_width,
            1) + 1, 10)

\* App::update_transcription_state, the first statement of a turn that
\* reads the shared transcription: it locks it and takes its length
UpdateTranscriptionState ==
    LET current_len == Len(live_transcription)
    IN  /\ app_pc = "idle"
        /\ app_mode = "Recording"
        /\ recognizer # 0
        /\ tick' = IF current_len # tick.previous_transcription_len
                   THEN [tick EXCEPT
                           !.animation_start_index =
                              tick.previous_transcription_len,
                           !.previous_transcription_len = current_len,
                           !.drawn = FALSE]
                   ELSE [tick EXCEPT !.drawn = FALSE]
        /\ app_pc' = "height"
        /\ UNCHANGED <<target_os, app_mode, recognizer, live_transcription,
                       is_listening, is_ready, threads, non_session_vars>>

\* "let terminal_width = terminal::size()?.0 ..; let content_lines = match
\* app.mode { AppMode::Recording => { .. app.full_transcription() .. } }":
\* the shared transcription is locked and read again
ComputeHeight ==
    \E terminal_width \in ScreenCols :
      /\ app_pc = "height"
      /\ tick' = [tick EXCEPT
                    !.terminal_width = terminal_width,
                    !.needed_height =
                       needed_height(full_transcription(live_transcription),
                                     terminal_width)]
      /\ app_pc' = "draw"
      /\ UNCHANGED <<target_os, app_mode, recognizer, live_transcription,
                     is_listening, is_ready, threads, non_session_vars>>

\* "term.draw(|f| { .. let live_transcription =
\* app.live_transcription.lock().unwrap().clone(); .. })": the shared
\* transcription is locked and read a third time; the turn ends
Draw ==
    /\ app_pc = "draw"
    /\ tick' = [tick EXCEPT !.live = live_transcription, !.drawn = TRUE]
    /\ app_pc' = "idle"
    /\ UNCHANGED <<target_os, app_mode, recognizer, live_transcription,
                   is_listening, is_ready, threads, non_session_vars>>

TickNext ==
    \/ StartListening
    \/ UpdateTranscriptionState
    \/ ComputeHeight
    \/ Draw
    \/ \E i \in Sessions : MockCheck(i)
    \/ \E i \in Sessions : MockPush(i)
    \/ \E i \in Sessions : LinuxSetup(i)
    \/ \E i \in Sessions : LinuxCheck(i)
    \/ \E i \in Sessions : LinuxPublish(i)
    \/ \E i \in Sessions : ThreadExit(i)

\* C30: in each turn of the loop the shared transcription is sampled once:
\* the animation state and the height of the region of a drawn frame are
\* those of the text drawn in it, whatever the producer published during the
\* turn.
C30_FrameFromOneSample ==
    tick.drawn =>
      /\ tick.previous_transcription_len = Len(tick.live)
      /\ tick.needed_height =
           needed_height(full_transcription(tick.live), tick.terminal_width)

----------------------------------------------------------------------------
(* The end of a run (src/src/main.rs): the keys that make run_app return,   *)
(* the failures that do, and what main emits when it has returned.          *)

\* a run is followed through at most MaxRestarts edits or restarts
MaxRestarts == 1

\* the texts an edit leaves in the textarea when it is confirmed
Edited == {<<>>, <<0>>}

\* the exit statuses of the command the transcript is piped to
ChildCodes == {0, 1}

\* App::get_final_transcription: "format!("{}{}", self.frozen_text, &*live)"
get_final_transcription(frozen, live) == frozen \o live

\* main after run_app returned, any exit code and result taken as a confirm
main_emitting_on_any_exit(exit_code, result, transcription, exec_command, spawned, code) ==
    IF transcription # <<>>
    THEN IF exec_command
         THEN IF spawned
              THEN [to |-> "command", text |-> transcription, status |-> code]
              ELSE [to |-> "none", text |-> <<>>, status |-> 1]
         ELSE [to |-> "stdout", text |-> transcription, status |-> exit_code]
    ELSE [to |-> "none", text |-> <<>>, status |-> exit_code]

\* main after run_app returned: "match result { Ok(()) => { if app.exit_code
\* == 0 { .. if !transcription.is_empty() { .. } } std::process::exit(
\* app.exit_code) } Err(e) => { .. std::process::exit(1) } }": what is
\* written where, and the exit status of the process
main(exit_code, result, transcription, exec_command, spawned, code) ==
    IF result = "Ok" /\ exit_code = 0 /\ transcription # <<>>
    THEN IF exec_command
         THEN IF spawned
              THEN [to |-> "command", text |-> transcription, status |-> code]
              ELSE [to |-> "none", text |-> <<>>, status |-> 1]
         ELSE [to |-> "stdout", text |-> transcription, status |-> exit_code]
    ELSE [to |-> "none", text |-> <<>>,
          status |-> IF result = "Ok" THEN exit_code ELSE 1]

\* main: the arguments are parsed, "let mut app = App::new()"
ExitInit ==
    /\ SessionInit
    /\ \E exec_command \in BOOLEAN :
         process = [NoExit EXCEPT !.exec_command = exec_command]

\* the arms of Ctrl+R, Ctrl+E and Ctrl+Shift+E in Recording mode, up to
\* stop_listening
RestartKey ==
    /\ recognizer <= MaxRestarts
    /\ StopListening

\* the arms of Enter and of Ctrl+C in Recording mode, up to stop_listening
QuitKey ==
    \E key \in {"confirm", "cancel"} :
      /\ app_pc = "idle"
      /\ app_mode = "Recording"
      /\ recognizer # 0
      /\ threads' = stop(threads, recognizer)
      /\ is_listening' = FALSE
      /\ app_pc' = key
      /\ UNCHANGED <<tick, target_os, app_mode, recognizer,
                     live_transcription, is_ready, process, non_app_vars>>

\* the arms of Enter and of Ctrl+C after stop_listening: "app.should_quit =
\* true; app.exit_code = 0" and "app.should_quit = true; app.exit_code = 130"
Quit ==
    /\ app_pc \in {"confirm", "cancel"}
    /\ joined(recognizer)
    /\ process' = [process EXCEPT
                     !.should_quit = TRUE,
                     !.exit_code = IF app_pc = "confirm" THEN 0 ELSE 130,
                     !.ended = app_pc]
    /\ app_pc' = "quit"
    /\ UNCHANGED <<tick, target_os, app_mode, recognizer, live_transcription,
                   is_listening, is_ready, threads, non_app_vars>>

\* App::exit_edit_mode for Ctrl+S in Editing mode: "self.frozen_text =
\* edited", the transcription is cleared and a fresh recognizer is started
EditConfirmed ==
    \E edited \in Edited :
      /\ app_pc = "idle"
      /\ app_mode = "Editing"
      /\ process' = [process EXCEPT !.frozen_text = edited]
      /\ live_transcription' = <<>>
      /\ NewRecognizer
      /\ is_ready' = (target_os = "mock")
      /\ app_mode' = "Recording"
      /\ UNCHANGED <<tick, target_os, app_pc, non_app_vars>>

\* App::restart after stop_listening, for Ctrl+R: both transcription buffers
\* are cleared; when the new recognizer cannot be made or started, "app.
\* should_quit = true; app.exit_code = 1"
Restarted ==
    \E started \in BOOLEAN :
      /\ app_pc = "restart"
      /\ live_transcription' = <<>>
      /\ IF started
         THEN /\ NewRecognizer
              /\ is_ready' = (target_os = "mock")
              /\ process' = [process EXCEPT !.frozen_text = <<>>]
              /\ app_pc' = "idle"
         ELSE /\ joined(recognizer)
              /\ is_ready' = FALSE
              /\ process' = [process EXCEPT !.frozen_text = <<>>,
                                            !.should_quit = TRUE,
                                            !.exit_code = 1,
                                            !.ended = "failure"]
              /\ app_pc' = "quit"
              /\ UNCHANGED <<recognizer, threads, is_listening>>
      /\ UNCHANGED <<tick, target_os, app_mode, non_app_vars>>

\* run_app: "if app.should_quit { .. term.draw(..)?; .. terminal::
\* disable_raw_mode()?; return Ok(()); }"
RunAppReturns ==
    \E drawn \in BOOLEAN :
      /\ app_pc = "quit"
      /\ process' = [process EXCEPT
                       !.result = IF drawn THEN "Ok" ELSE "Err"]
      /\ app_pc' = "main"
      /\ UNCHANGED <<tick, target_os, app_mode, recognizer, live_transcription,
                     is_listening, is_ready, threads, non_app_vars>>

\* run_app: a "?" in a turn of the loop returns the error of the draw, of
\* the poll or of the read
RunAppFails ==
    /\ app_pc = "idle"
    /\ recognizer # 0
    /\ process' = [process EXCEPT !.result = "Err", !.ended = "failure"]
    /\ app_pc' = "main"
    /\ UNCHANGED <<tick, target_os, app_mode, recognizer, live_transcription,
                   is_listening, is_ready, threads, non_app_vars>>

\* main, from "match result" on: the process exits
Main ==
    \E spawned \in BOOLEAN, code \in ChildCodes :
      LET r == main(process.exit_code, process.result,
                    get_final_transcription(process.frozen_text,
                                            live_transcription),
                    process.exec_command, spawned, code)
      IN  /\ app_pc = "main"
          /\ process' = [process EXCEPT
                           !.out = [to |-> r.to, text |-> r.text],
                           !.status = r.status]
          /\ app_pc' = "exited"
          /\ UNCHANGED <<tick, target_os, app_mode, recognizer,
                         live_transcription, is_listening, is_ready, threads,
                         non_app_vars>>

ExitNext ==
    \/ StartListening
    \/ RestartKey
    \/ EnterEditMode
    \/ EditConfirmed
    \/ Restarted
    \/ QuitKey
    \/ Quit
    \/ RunAppReturns
    \/ RunAppFails
    \/ Main
    \/ \E i \in Sessions : MockCheck(i)
    \/ \E i \in Sessions : MockPush(i)
    \/ \E i \in Sessions : LinuxSetup(i)
    \/ \E i \in Sessions : LinuxCheck(i)
    \/ \E i \in Sessions : LinuxPublish(i)
    \/ \E i \in Sessions : ThreadExit(i)

\* C31: the composed transcript is printed or piped to the command only when
\* the session ended by confirm (exit code 0) and the transcript is not
\* empty: whatever main emitted, it emitted after run_app returned Ok for a
\* confirm, and it is a non-empty text; after a cancel (exit code 130) or a
\* failure nothing is emitted.
C31_EmittedOnlyOnConfirm ==
    process.out.to # "none" =>
      /\ process.ended = "confirm"
      /\ process.exit_code = 0
      /\ process.result = "Ok"
      /\ process.out.text # <<>>

\* a confirmed run whose frozen and live text were emitted
C31_Witness ==
    /\ app_pc = "exited"
    /\ process.ended = "confirm"
    /\ process.out.to # "none"
    /\ process.frozen_text # <<>>
    /\ Len(process.out.text) > Len(process.frozen_text)

\* a cancelled run with a transcript, nothing emitted
C31_CancelWitness ==
    /\ app_pc = "exited"
    /\ process.ended = "cancel"
    /\ process.status = 130
    /\ live_transcription # <<>>
    /\ process.out.to = "none"

----------------------------------------------------------------------------
(* The specifications.                                                      *)

\* the Ui as constructed, while the surface is explored
UiIdle == UiInit

\* a 1 x 1 surface as constructed, while the Ui is explored
SurfaceIdle ==
    /\ width = 1
    /\ height = 1
    /\ lines = NewLines(1, 1)
    /\ prev_lines = NewLines(1, 1)
    /\ last_op = Op("new", -1)
    /\ changes = <<>>

Init == SurfaceInit /\ UiIdle /\ LayoutInit /\ TermIdle /\ SessionIdle

Next == SurfaceNext

Spec == Init /\ [][Next]_vars

CellSpec == Init /\ [][CellNext]_vars

UiSpecInit == SurfaceIdle /\ UiInit /\ LayoutInit /\ TermIdle /\ SessionIdle

UiSpec == UiSpecInit /\ [][UiNext]_vars

EditSpec == UiSpecInit /\ [][EditNext]_vars

TextSpec == UiSpecInit /\ [][TextNext]_vars

BoundarySpec == UiSpecInit /\ [][BoundaryNext]_vars

Utf8EditSpec == UiSpecInit /\ [][Utf8EditNext]_vars

LayoutSpecInit == SurfaceIdle /\ UiIdle /\ LayoutInit /\ TermIdle /\ SessionIdle

LayoutSpec == LayoutSpecInit /\ [][LayoutNext]_vars

TermSpecInit == TermInit /\ UiIdle /\ LayoutInit /\ SessionIdle

TermSpec == TermSpecInit /\ [][TermNext]_vars

ResizeSpecInit == TermInit /\ UiIdle /\ LayoutInit /\ SessionIdle

ResizeSpec == ResizeSpecInit /\ [][ResizeNext]_vars

WriteSpec == ResizeSpecInit /\ [][WriteNext]_vars

CursorSpecInit == CursorInit /\ TermIdle /\ SessionIdle

CursorSpec == CursorSpecInit /\ [][CursorNext]_vars

ControlsSpecInit == ControlsInit /\ TermIdle /\ SessionIdle

ControlsSpec == ControlsSpecInit /\ [][ControlsNext]_vars

ScreenSpecInit == ScreenInit /\ UiIdle /\ LayoutInit /\ SessionIdle

ScreenSpec == ScreenSpecInit /\ [][ScreenNext]_vars

RenderSpecInit == RenderInit /\ TermIdle /\ SessionIdle

RenderSpec == RenderSpecInit /\ [][RenderNext]_vars

SessionSpecInit ==
    /\ SurfaceIdle /\ UiIdle /\ LayoutInit /\ TermIdle /\ SessionInit
    /\ process = NoExit

SessionSpec == SessionSpecInit /\ [][SessionNext]_vars

TickSpec == SessionSpecInit /\ [][TickNext]_vars

RestartSpec == SessionSpecInit /\ [][RestartNext]_vars

ExitSpecInit == SurfaceIdle /\ UiIdle /\ LayoutInit /\ TermIdle /\ ExitInit

ExitSpec == ExitSpecInit /\ [][ExitNext]_vars

====
